---------------------------- MODULE Spec2Model ----------------------------
(***************************************************************************)
(* A model of the agent simulation engine of AI-TRPG-System-2: the Trust   *)
(* Map (trust_map.js), the Agent Registry (agent_registry.js), the part of *)
(* the World State the registry writes (game_state.js), the History Log    *)
(* (history.js) and the Memory Store (memory_manager.js).                  *)
(*                                                                         *)
(* JavaScript values are modelled as follows.  An object is a function     *)
(* from field names to values, and the spread {...x, ...y} is Merge(x, y). *)
(* A string that is only compared for equality is a TLA+ string; a string  *)
(* that is searched (String.includes) is a sequence of characters, each    *)
(* character named in Latin letters.  null is the record Null.  An ISO     *)
(* timestamp is the value of a millisecond clock; the empty timestamp ''   *)
(* is NoTime.                                                              *)
(***************************************************************************)
EXTENDS Integers, Sequences, FiniteSets, TLC

VARIABLES
    relationships,  \* TrustMap.relationships : key -> relationship
    agents,         \* AgentRegistry.agents, in insertion order
    gsPlayer,       \* GameState.state.player
    gsAgents,       \* GameState.state.agents
    now,            \* the clock read by new Date() and Date.now()
    nOps,           \* number of calls made so far
    last,           \* the last call: its name, its arguments, what it returned
    history,        \* HistoryManager.history
    histInserted,   \* every entry addEntry has completed, in call order
    memories,       \* MemoryManager.memories, in insertion order
    agentMemories,  \* MemoryManager.agentMemories : agent id -> memory ids
    gsMemories,     \* GameState.state.memories
    memGenerated,   \* number of memory ids generated so far
    gsKind,         \* what kind of JSON value GameState.state is
    heap,           \* the objects State Transition reads and makes, by reference
    gsRef,          \* GameState.state as a reference into the heap
    requestQueue,   \* LLMAdapter.requestQueue
    isProcessingQueue, \* LLMAdapter.isProcessingQueue
    lastRequestTime,   \* LLMAdapter.lastRequestTime
    llmPc,          \* the running _processQueue invocations, each where it stands
    providerCalls,  \* every provider call made: request, start, end, outcome
    llmNow          \* the clock of the adapter

trustVars == <<relationships, agents, gsPlayer, gsAgents>>
histVars == <<history, histInserted>>
memVars == <<memories, agentMemories, gsMemories, memGenerated>>
worldVars == <<gsKind, heap, gsRef>>
llmVars == <<requestQueue, isProcessingQueue, lastRequestTime, llmPc, providerCalls, llmNow>>
vars == <<relationships, agents, gsPlayer, gsAgents, now, nOps, last,
          history, histInserted, memories, agentMemories, gsMemories, memGenerated,
          gsKind, heap, gsRef, requestQueue, isProcessingQueue, lastRequestTime, llmPc,
          providerCalls, llmNow>>

-----------------------------------------------------------------------------
(* Bounds of the model.                                                    *)

\* Calls in one behaviour of the Trust Map specification.
MaxOps == 3

\* HistoryManager.maxHistoryLength, 1000 in the source, scaled down.
maxHistoryLength == 3

\* Calls in one behaviour of the History Log specification.
MaxHistoryOps == 5

\* MemoryManager.maxMemories, 1000 in the source, scaled down.
maxMemories == 2

\* Calls in one behaviour of the Memory Store specification.
MaxMemoryOps == 4

\* The last value of the clock.
MaxTime == 3

\* LLMAdapter.rateLimitDelay, 1000 ms in the source, in units of 500 ms.
rateLimitDelay == 2

\* Requests submitted in one behaviour of the adapter specification.
MaxRequests == 3

\* Provider calls in one behaviour of the adapter specification.
MaxProviderCalls == 5

\* The last value of the adapter's clock.
MaxLLMTime == 7

\* Length of the longest text given to parseActionInput.
MaxInputLen == 4

-----------------------------------------------------------------------------
(* JavaScript values.                                                      *)

Null == [null |-> TRUE]
Threw == [threw |-> TRUE]
BoolRet(b) == [bool |-> b]

\* The empty timestamp '' of DEFAULT_RELATIONSHIP and DEFAULT_AGENT_TEMPLATE.
NoTime == 0

\* The empty object {}.
EmptyObj == [k \in {} |-> Null]

\* {...x, ...y}
Merge(x, y) ==
    [k \in (DOMAIN x) \cup (DOMAIN y) |-> IF k \in DOMAIN y THEN y[k] ELSE x[k]]

\* obj[k] || dflt, for a field whose absent and empty values are both falsy
Field(obj, k, dflt) == IF k \in DOMAIN obj THEN obj[k] ELSE dflt

\* obj[k] = v on a copy of obj
Put(obj, k, v) == [x \in (DOMAIN obj) \cup {k} |-> IF x = k THEN v ELSE obj[x]]

Min(x, y) == IF x < y THEN x ELSE y
Max(x, y) == IF x > y THEN x ELSE y

\* String.prototype.includes on character sequences.
Includes(content, kw) ==
    \E i \in 1..(Len(content) - Len(kw) + 1) :
        SubSeq(content, i, i + Len(kw) - 1) = kw

-----------------------------------------------------------------------------
(* Agent ids.  The ids 'player' and 'gm' are the reserved ones; the other  *)
(* two are ids a caller gave to registerAgent.                             *)

AgentIds == {"player", "gm", "gm_x", "x_player"}

\* The UTF-16 code units of an id, which Array.prototype.sort compares.
CodeUnits(s) ==
    CASE s = "player"   -> <<112, 108, 97, 121, 101, 114>>
      [] s = "gm"       -> <<103, 109>>
      [] s = "gm_x"     -> <<103, 109, 95, 120>>
      [] s = "x_player" -> <<120, 95, 112, 108, 97, 121, 101, 114>>

RECURSIVE SeqLess(_, _)
SeqLess(u, v) ==
    IF v = <<>> THEN FALSE
    ELSE IF u = <<>> THEN TRUE
    ELSE IF u[1] # v[1] THEN u[1] < v[1]
    ELSE SeqLess(Tail(u), Tail(v))

\* [a, b].sort()
SortPair(a, b) == IF SeqLess(CodeUnits(b), CodeUnits(a)) THEN <<b, a>> ELSE <<a, b>>


-----------------------------------------------------------------------------
(* agent_registry.js and the World State slots it writes.                  *)

AgentType == [PLAYER |-> "player", NPC |-> "npc", GM |-> "gm", ENVIRONMENT |-> "environment"]

\* The fields of DEFAULT_AGENT_TEMPLATE that the modelled operations read or
\* write.
DEFAULT_AGENT_TEMPLATE ==
    [id |-> "", type |-> AgentType.NPC,
     personality |-> [openness |-> 50, conscientiousness |-> 50, extraversion |-> 50,
                      agreeableness |-> 50, neuroticism |-> 50],
     relationships |-> EmptyObj,
     currentEmotion |-> "neutral", emotionIntensity |-> 50, location |-> "default",
     createdAt |-> NoTime, updatedAt |-> NoTime]

\* GameState.reset(): state.player and state.agents.
ResetPlayer == [id |-> "player"]
ResetAgents == <<>>

\* The objects GameState.reset() builds, as State Transition reads them: the
\* state object, which refers to its player, its agents array and its
\* environment by their places in the heap.
ResetHeap ==
    <<[player |-> 2, agents |-> 3, environment |-> 4, updatedAt |-> 1],
      [id |-> "player", inventory |-> <<>>],
      [items |-> <<>>],
      [currentLocation |-> "default",
       locations |-> [default |-> [id |-> "default", objects |-> <<>>]]]>>

\* The registry and the World State slots, passed through the operations.
Store(rel, ag, gp, ga) == [rel |-> rel, ag |-> ag, gp |-> gp, ga |-> ga]

\* Index of the record with this id in a list of records, 0 when absent
\* (Array.findIndex, Map lookup).
IndexOfId(list, id) ==
    IF \E i \in 1..Len(list) : list[i].id = id
    THEN CHOOSE i \in 1..Len(list) :
            /\ list[i].id = id
            /\ \A j \in 1..(i - 1) : list[j].id # id
    ELSE 0

\* Map.set / agents[agentIndex] = x or agents.push(x)
Upsert(list, rec) ==
    LET i == IndexOfId(list, rec.id)
    IN  IF i > 0 THEN [list EXCEPT ![i] = rec] ELSE Append(list, rec)

getAgent(ag, agentId) ==
    LET i == IndexOfId(ag, agentId) IN IF i > 0 THEN ag[i] ELSE Null

\* registerAgent with an id given: stamps the times and upserts; it does not
\* write the World State.
registerAgent(S, agent, t) ==
    LET stamped == Merge(agent,
                     [createdAt |-> IF Field(agent, "createdAt", NoTime) = NoTime
                                    THEN t ELSE agent.createdAt,
                      updatedAt |-> t])
    IN  [S EXCEPT !.ag = Upsert(S.ag, stamped)]

\* initialize(): the player of the World State, its NPCs, then the gm.
RECURSIVE registerAll(_, _, _)
registerAll(S, list, t) ==
    IF list = <<>> THEN S
    ELSE registerAll(registerAgent(S, Merge(DEFAULT_AGENT_TEMPLATE, Head(list)), t),
                     Tail(list), t)

initializeRegistry(S, t) ==
    LET S1 == registerAgent(S,
                 Merge(Merge(DEFAULT_AGENT_TEMPLATE, S.gp),
                       [type |-> AgentType.PLAYER, id |-> "player"]), t)
        S2 == registerAll(S1, S.ga, t)
    IN  registerAgent(S2,
            Merge(DEFAULT_AGENT_TEMPLATE,
                  [id |-> "gm", type |-> AgentType.GM,
                   personality |-> [openness |-> 80, conscientiousness |-> 90,
                                    extraversion |-> 70, agreeableness |-> 85,
                                    neuroticism |-> 20]]), t)

\* updateAgent: merges the updates, stamps updatedAt and writes the World
\* State: the player slot for 'player', the agents list for an NPC.
updateAgent(S, agentId, updates, t) ==
    LET i == IndexOfId(S.ag, agentId)
    IN  IF i = 0 THEN S
        ELSE
          LET agent == S.ag[i]
              updatedAgent == Merge(Merge(agent, updates), [updatedAt |-> t])
              ag2 == [S.ag EXCEPT ![i] = updatedAgent]
          IN  IF agentId = "player"
              THEN [S EXCEPT !.ag = ag2, !.gp = Merge(S.gp, updatedAgent)]
              ELSE IF agent.type = AgentType.NPC
              THEN [S EXCEPT !.ag = ag2, !.ga = Upsert(S.ga, updatedAgent)]
              ELSE [S EXCEPT !.ag = ag2]

\* A mutant of removeAgent: the reserved ids are not refused.
removeAgentAny(S, agentId) ==
    LET i == IndexOfId(S.ag, agentId)
    IN  IF i = 0 THEN [st |-> S, ret |-> BoolRet(FALSE)]
        ELSE [st |-> [S EXCEPT
                        !.ag = SubSeq(S.ag, 1, i - 1) \o SubSeq(S.ag, i + 1, Len(S.ag)),
                        !.ga = SelectSeq(S.ga, LAMBDA a : a.id # agentId)],
              ret |-> BoolRet(TRUE)]

\* removeAgent: refuses the reserved ids; deletes from the registry and from
\* the World State agents list.
removeAgent(S, agentId) ==
    IF agentId = "player" \/ agentId = "gm" THEN [st |-> S, ret |-> BoolRet(FALSE)]
    ELSE
      LET i == IndexOfId(S.ag, agentId)
      IN  IF i = 0 THEN [st |-> S, ret |-> BoolRet(FALSE)]
          ELSE [st |-> [S EXCEPT
                          !.ag = SubSeq(S.ag, 1, i - 1) \o SubSeq(S.ag, i + 1, Len(S.ag)),
                          !.ga = SelectSeq(S.ga, LAMBDA a : a.id # agentId)],
                ret |-> BoolRet(TRUE)]

-----------------------------------------------------------------------------
(* trust_map.js                                                            *)

RelationshipType ==
    [FRIEND |-> "friend", ENEMY |-> "enemy", STRANGER |-> "stranger"]

RelationshipFactor ==
    [TRUST |-> "trust", INTIMACY |-> "intimacy", RESPECT |-> "respect",
     LOYALTY |-> "loyalty", DEPENDENCY |-> "dependency"]

DEFAULT_RELATIONSHIP ==
    [type |-> RelationshipType.STRANGER,
     factors |-> [trust |-> 50, intimacy |-> 0, respect |-> 50,
                  loyalty |-> 0, dependency |-> 0],
     history |-> <<>>,
     notes |-> "",
     createdAt |-> NoTime,
     updatedAt |-> NoTime]

\* A mutant of getRelationshipKey: the ids joined in argument order.
getRelationshipKeyUnsorted(agentId1, agentId2) ==
    agentId1 \o "_" \o agentId2

\* [agentId1, agentId2].sort().join('_')
getRelationshipKey(agentId1, agentId2) ==
    LET sorted == SortPair(agentId1, agentId2)
    IN  sorted[1] \o "_" \o sorted[2]

getRelationship(rel, agentId1, agentId2) ==
    IF agentId1 = agentId2 THEN Null
    ELSE LET key == getRelationshipKey(agentId1, agentId2)
         IN  IF key \in DOMAIN rel THEN rel[key] ELSE Null

\* A mutant of updateAgentRelationships: only the first agent's mirror is
\* written.
updateAgentRelationshipsFirstOnly(S, agentId1, agentId2, relationship, t) ==
    LET agent1 == getAgent(S.ag, agentId1)
    IN  IF agent1 # Null
        THEN updateAgent(S, agentId1,
                 [relationships |-> Put(Field(agent1, "relationships", EmptyObj), agentId2, relationship)], t)
        ELSE S

\* _updateAgentRelationships: both agents are read first, then each one that
\* is registered gets the relationship under the other's id.
updateAgentRelationships(S, agentId1, agentId2, relationship, t) ==
    LET agent1 == getAgent(S.ag, agentId1)
        agent2 == getAgent(S.ag, agentId2)
        S1 == IF agent1 # Null
              THEN updateAgent(S, agentId1,
                       [relationships |-> Put(Field(agent1, "relationships", EmptyObj), agentId2, relationship)], t)
              ELSE S
    IN  IF agent2 # Null
        THEN updateAgent(S1, agentId2,
                 [relationships |-> Put(Field(agent2, "relationships", EmptyObj), agentId1, relationship)], t)
        ELSE S1

\* setRelationship for agentId1 # agentId2 (the caller handles the throw).
setRelationship(S, agentId1, agentId2, relationship, t) ==
    LET key == getRelationshipKey(agentId1, agentId2)
        merged == Merge(Merge(DEFAULT_RELATIONSHIP, relationship), [updatedAt |-> t])
        completeRelationship ==
            IF merged.createdAt = NoTime THEN [merged EXCEPT !.createdAt = t] ELSE merged
        S1 == [S EXCEPT !.rel = Put(S.rel, key, completeRelationship)]
    IN  [st |-> updateAgentRelationships(S1, agentId1, agentId2, completeRelationship, t),
         ret |-> completeRelationship]

\* A mutant of Clamp: no upper limit.
ClampLowOnly(value) == Max(0, value)

\* Math.max(0, Math.min(100, value))
Clamp(value) == Max(0, Min(100, value))

\* A mutant of updateRelationshipFactor: the other factors are not copied.
updateRelationshipFactorAlone(S, agentId1, agentId2, factor, value, t) ==
    LET relationship == getRelationship(S.rel, agentId1, agentId2)
    IN  IF relationship = Null THEN [st |-> S, ret |-> Null]
        ELSE setRelationship(S, agentId1, agentId2,
                 Merge(relationship,
                       [factors |-> Put(EmptyObj, factor, Clamp(value)),
                        updatedAt |-> t]), t)

updateRelationshipFactor(S, agentId1, agentId2, factor, value, t) ==
    LET relationship == getRelationship(S.rel, agentId1, agentId2)
    IN  IF relationship = Null THEN [st |-> S, ret |-> Null]
        ELSE setRelationship(S, agentId1, agentId2,
                 Merge(relationship,
                       [factors |-> Put(relationship.factors, factor, Clamp(value)),
                        updatedAt |-> t]), t)

\* relationship.factors[factor] || 0
FactorOf(relationship, factor) ==
    IF factor \in DOMAIN relationship.factors THEN relationship.factors[factor] ELSE 0

adjustRelationshipFactor(S, agentId1, agentId2, factor, delta, t) ==
    LET relationship == getRelationship(S.rel, agentId1, agentId2)
    IN  IF relationship = Null THEN [st |-> S, ret |-> Null]
        ELSE updateRelationshipFactor(S, agentId1, agentId2, factor,
                 Clamp(FactorOf(relationship, factor) + delta), t)

updateRelationshipType(S, agentId1, agentId2, type, t) ==
    LET relationship == getRelationship(S.rel, agentId1, agentId2)
    IN  IF relationship = Null THEN [st |-> S, ret |-> Null]
        ELSE setRelationship(S, agentId1, agentId2,
                 Merge(relationship, [type |-> type, updatedAt |-> t]), t)

\* A mutant of addRelationshipHistory: the new entry replaces the history.
addRelationshipHistoryReplacing(S, agentId1, agentId2, historyEntry, t) ==
    LET relationship == getRelationship(S.rel, agentId1, agentId2)
    IN  IF relationship = Null THEN [st |-> S, ret |-> Null]
        ELSE setRelationship(S, agentId1, agentId2,
                 Merge(relationship, [history |-> <<historyEntry>>, updatedAt |-> t]), t)

\* addRelationshipHistory: the entry keeps its timestamp when it has one.
addRelationshipHistory(S, agentId1, agentId2, historyEntry, t) ==
    LET relationship == getRelationship(S.rel, agentId1, agentId2)
    IN  IF relationship = Null THEN [st |-> S, ret |-> Null]
        ELSE
          LET completeEntry ==
                  Merge(historyEntry,
                        [timestamp |->
                            IF "timestamp" \in DOMAIN historyEntry
                               /\ historyEntry.timestamp # NoTime
                            THEN historyEntry.timestamp ELSE t])
          IN  setRelationship(S, agentId1, agentId2,
                  Merge(relationship,
                        [history |-> Append(relationship.history, completeEntry),
                         updatedAt |-> t]), t)


-----------------------------------------------------------------------------
(* action_space.js enums and processActionEffect.                          *)

\* ActionType.PHYSICAL is named PHYSICAL here, ACTION being a TLA+ keyword.
ActionType == [DIALOGUE |-> "dialogue", PHYSICAL |-> "action", ITEM |-> "item"]

TargetType ==
    [NONE |-> "none", CHARACTER |-> "character",
     ENVIRONMENT |-> "environment", ITEM |-> "item"]

\* The keyword vocabulary of processActionEffect, one name per character.
KwGratitude == {<<"gan", "xie">>, <<"xie", "xie">>}
KwApology == {<<"bao", "qian">>, <<"dui", "bu", "qi">>}
KwAffection == {<<"xi", "huan">>, <<"ai">>}
KwHostility == {<<"tao", "yan">>, <<"hen">>}
KwHelp == {<<"bang", "zhu">>, <<"yuan", "zhu">>}
KwAttack == {<<"gong", "ji">>, <<"shang", "hai">>}
KwEmbrace == {<<"yong", "bao">>, <<"qin", "wen">>}
KwGive == {<<"zeng", "song">>, <<"gei", "yu">>}
KwSteal == {<<"tou", "qie">>, <<"qiang", "duo">>}

IncludesAny(content, kws) == \E kw \in kws : Includes(content, kw)

Effect(trust, intimacy, respect) ==
    [trust |-> trust, intimacy |-> intimacy, respect |-> respect]

\* A mutant of actionEffect: the deltas of every matching category of the
\* action type are added up.
actionEffectSummed(action) ==
    LET c == action.content
        D(kws, t, i, r) == IF IncludesAny(c, kws) THEN Effect(t, i, r) ELSE Effect(0, 0, 0)
        Sum(es) == Effect(es[1].trust + es[2].trust + es[3].trust + es[4].trust,
                          es[1].intimacy + es[2].intimacy + es[3].intimacy + es[4].intimacy,
                          es[1].respect + es[2].respect + es[3].respect + es[4].respect)
    IN  IF action.type = ActionType.DIALOGUE
        THEN Sum(<<D(KwGratitude, 2, 0, 1), D(KwApology, 1, 0, 2),
                   D(KwAffection, 1, 3, 0), D(KwHostility, -1, -3, 0)>>)
        ELSE IF action.type = ActionType.PHYSICAL
        THEN Sum(<<D(KwHelp, 3, 0, 2), D(KwAttack, -5, 0, -3),
                   D(KwEmbrace, 0, 4, 0), Effect(0, 0, 0)>>)
        ELSE IF action.type = ActionType.ITEM
        THEN Sum(<<D(KwGive, 2, 1, 0), D(KwSteal, -4, 0, -2),
                   Effect(0, 0, 0), Effect(0, 0, 0)>>)
        ELSE Effect(0, 0, 0)

\* The switch of processActionEffect: trustDelta, intimacyDelta, respectDelta.
actionEffect(action) ==
    LET c == action.content
    IN  IF action.type = ActionType.DIALOGUE
        THEN IF IncludesAny(c, KwGratitude) THEN Effect(2, 0, 1)
             ELSE IF IncludesAny(c, KwApology) THEN Effect(1, 0, 2)
             ELSE IF IncludesAny(c, KwAffection) THEN Effect(1, 3, 0)
             ELSE IF IncludesAny(c, KwHostility) THEN Effect(-1, -3, 0)
             ELSE Effect(0, 0, 0)
        ELSE IF action.type = ActionType.PHYSICAL
        THEN IF IncludesAny(c, KwHelp) THEN Effect(3, 0, 2)
             ELSE IF IncludesAny(c, KwAttack) THEN Effect(-5, 0, -3)
             ELSE IF IncludesAny(c, KwEmbrace) THEN Effect(0, 4, 0)
             ELSE Effect(0, 0, 0)
        ELSE IF action.type = ActionType.ITEM
        THEN IF IncludesAny(c, KwGive) THEN Effect(2, 1, 0)
             ELSE IF IncludesAny(c, KwSteal) THEN Effect(-4, 0, -2)
             ELSE Effect(0, 0, 0)
        ELSE Effect(0, 0, 0)

\* The guards of processActionEffect that make it return null at once.  An
\* unset targetId is the empty string.
actionIgnored(rel, action) ==
    \/ action.targetType # TargetType.CHARACTER
    \/ action.targetId = ""
    \/ action.actorId = action.targetId
    \/ getRelationship(rel, action.actorId, action.targetId) = Null

\* A mutant of processActionEffect: the relationship is created with the
\* defaults when the pair has none.
processActionEffectCreating(S, action, t) ==
    IF \/ action.targetType # TargetType.CHARACTER
       \/ action.targetId = ""
       \/ action.actorId = action.targetId
    THEN [st |-> S, ret |-> Null]
    ELSE IF getRelationship(S.rel, action.actorId, action.targetId) = Null
    THEN setRelationship(S, action.actorId, action.targetId, EmptyObj, t)
    ELSE [st |-> S, ret |-> getRelationship(S.rel, action.actorId, action.targetId)]

processActionEffect(S, action, t) ==
    IF actionIgnored(S.rel, action) THEN [st |-> S, ret |-> Null]
    ELSE
      LET actorId == action.actorId
          targetId == action.targetId
          e == actionEffect(action)
          S1 == IF e.trust # 0
                THEN adjustRelationshipFactor(S, actorId, targetId,
                         RelationshipFactor.TRUST, e.trust, t).st
                ELSE S
          S2 == IF e.intimacy # 0
                THEN adjustRelationshipFactor(S1, actorId, targetId,
                         RelationshipFactor.INTIMACY, e.intimacy, t).st
                ELSE S1
          S3 == IF e.respect # 0
                THEN adjustRelationshipFactor(S2, actorId, targetId,
                         RelationshipFactor.RESPECT, e.respect, t).st
                ELSE S2
          S4 == addRelationshipHistory(S3, actorId, targetId,
                    [actionType |-> action.type, content |-> action.content,
                     effect |-> e], t).st
      IN  [st |-> S4, ret |-> getRelationship(S4.rel, actorId, targetId)]

-----------------------------------------------------------------------------
(* importRelationships.  The parsed JSON is modelled as a record: isArray  *)
(* tells whether it is an array, entries are its elements, each a          *)
(* [key, relationship] pair or Null (an element that cannot be             *)
(* destructured).                                                          *)

RECURSIVE importEntries(_, _)
importEntries(rel, entries) ==
    IF entries = <<>> THEN [rel |-> rel, threw |-> FALSE]
    ELSE IF Head(entries) = Null THEN [rel |-> rel, threw |-> TRUE]
    ELSE importEntries(Put(rel, Head(entries).key, Head(entries).relationship),
                       Tail(entries))

\* The relationships of one agent with the other registered agents.
mirrorOf(rel, ag, agentId) ==
    LET others == {ag[i].id : i \in 1..Len(ag)} \ {agentId}
        known == {o \in others : getRelationship(rel, agentId, o) # Null}
    IN  [o \in known |-> getRelationship(rel, agentId, o)]

RECURSIVE refreshMirrors(_, _, _)
refreshMirrors(S, ids, t) ==
    IF ids = <<>> THEN S
    ELSE refreshMirrors(
             updateAgent(S, Head(ids), [relationships |-> mirrorOf(S.rel, S.ag, Head(ids))], t),
             Tail(ids), t)

importRelationships(S, parsed, t) ==
    IF ~parsed.isArray THEN [st |-> S, ret |-> BoolRet(FALSE)]
    ELSE
      LET r == importEntries(EmptyObj, parsed.entries)
          S1 == [S EXCEPT !.rel = r.rel]
      IN  IF r.threw THEN [st |-> S1, ret |-> BoolRet(FALSE)]
          ELSE [st |-> refreshMirrors(S1, [i \in 1..Len(S1.ag) |-> S1.ag[i].id], t),
                ret |-> BoolRet(TRUE)]


-----------------------------------------------------------------------------
(* The inputs of the Trust Map specification.                              *)

\* The (agentId1, agentId2) arguments.  The pairs (gm_x, player) and
\* (gm, x_player) are different pairs of ids.
CallPairs ==
    {<<"player", "gm">>, <<"gm", "player">>, <<"gm_x", "player">>, <<"gm", "x_player">>}
SelfPairs == {<<"player", "player">>}

\* The relationship argument of setRelationship: nothing, a partial record
\* whose factors lack some names, a record with all factors.
RelationshipData ==
    {EmptyObj,
     [type |-> RelationshipType.ENEMY, factors |-> [trust |-> 10, respect |-> 40]],
     [type |-> RelationshipType.FRIEND,
      factors |-> [trust |-> 90, intimacy |-> 99, respect |-> 100,
                   loyalty |-> 0, dependency |-> 0]]}

\* The (factor, delta) arguments of adjustRelationshipFactor.
FactorDeltas ==
    {<<"trust", 1000>>, <<"trust", -1000>>, <<"trust", -3>>, <<"loyalty", 7>>}

RelationshipTypes == {RelationshipType.FRIEND}

HistoryEntries == {[note |-> "met"]}

Action(type, actorId, targetType, targetId, content) ==
    [type |-> type, actorId |-> actorId, targetType |-> targetType,
     targetId |-> targetId, content |-> content]

\* Player actions on the gm, one per keyword situation.
EffectiveActions ==
    {Action(tc[1], "player", TargetType.CHARACTER, "gm", tc[2]) : tc \in
        {<<ActionType.DIALOGUE, <<"xie", "xie", "ni">>>>,
         <<ActionType.DIALOGUE, <<"dui", "bu", "qi", "xie", "xie">>>>,
         <<ActionType.DIALOGUE, <<"bao", "qian">>>>,
         <<ActionType.DIALOGUE, <<"wo", "ai", "ni">>>>,
         <<ActionType.DIALOGUE, <<"wo", "hen", "ni">>>>,
         <<ActionType.DIALOGUE, <<"gong", "ji">>>>,
         <<ActionType.PHYSICAL, <<"gong", "ji">>>>,
         <<ActionType.PHYSICAL, <<"gong", "ji", "bang", "zhu">>>>,
         <<ActionType.PHYSICAL, <<"yong", "bao">>>>,
         <<ActionType.ITEM, <<"tou", "qie", "zeng", "song">>>>,
         <<ActionType.ITEM, <<"tou", "qie">>>>}}

\* Actions that name no character target, no target, the actor itself, or
\* come from the other side of the pair.
OtherActions ==
    {Action(ActionType.DIALOGUE, "player", TargetType.NONE, "gm", <<"xie", "xie">>),
     Action(ActionType.DIALOGUE, "player", TargetType.CHARACTER, "", <<"xie", "xie">>),
     Action(ActionType.DIALOGUE, "player", TargetType.CHARACTER, "player", <<"xie", "xie">>),
     Action(ActionType.PHYSICAL, "gm", TargetType.CHARACTER, "player", <<"shang", "hai">>)}

Actions == EffectiveActions \cup OtherActions

ImportedRelationship ==
    [type |-> RelationshipType.FRIEND,
     factors |-> [trust |-> 80, intimacy |-> 80, respect |-> 60,
                  loyalty |-> 10, dependency |-> 0],
     history |-> <<>>, notes |-> "", createdAt |-> 1, updatedAt |-> 1]

ParsedImports ==
    {[isArray |-> FALSE, entries |-> <<>>],
     [isArray |-> TRUE, entries |-> <<>>],
     [isArray |-> TRUE,
      entries |-> <<[key |-> "gm_player", relationship |-> ImportedRelationship]>>],
     [isArray |-> TRUE,
      entries |-> <<[key |-> "gm_player", relationship |-> ImportedRelationship], Null>>]}

\* The agents a caller registers.
NewAgents == {[id |-> "gm_x", type |-> AgentType.NPC]}

-----------------------------------------------------------------------------
(* The Trust Map specification: calls on the Trust Map and the registry.   *)

TrustStore == Store(relationships, agents, gsPlayer, gsAgents)

Commit(S) ==
    /\ relationships' = S.rel
    /\ agents' = S.ag
    /\ gsPlayer' = S.gp
    /\ gsAgents' = S.ga

Call(op, a, b, arg, R) ==
    /\ nOps < MaxOps
    /\ nOps' = nOps + 1
    /\ Commit(R.st)
    /\ last' = [op |-> op, a |-> a, b |-> b, arg |-> arg, ret |-> R.ret]
    /\ UNCHANGED <<now, histVars, memVars, worldVars, llmVars>>

NoCall == [op |-> "", a |-> "", b |-> "", arg |-> Null, ret |-> Null]

\* The state after the modules are loaded: every store is empty and the
\* World State is the one GameState.reset() builds.
Init ==
    /\ relationships = EmptyObj
    /\ agents = <<>>
    /\ gsPlayer = ResetPlayer
    /\ gsAgents = ResetAgents
    /\ now = 1
    /\ nOps = 0
    /\ last = NoCall
    /\ history = <<>>
    /\ histInserted = <<>>
    /\ memories = <<>>
    /\ agentMemories = EmptyObj
    /\ gsMemories = <<>>
    /\ memGenerated = 0
    /\ gsKind = "object"
    /\ heap = ResetHeap
    /\ gsRef = 1
    /\ requestQueue = <<>>
    /\ isProcessingQueue = FALSE
    /\ lastRequestTime = 0
    /\ llmPc = <<>>
    /\ providerCalls = <<>>
    /\ llmNow = rateLimitDelay + 1

\* Time passes between two calls.
Tick ==
    /\ nOps < MaxOps
    /\ now < MaxTime
    /\ nOps' = nOps + 1
    /\ now' = now + 1
    /\ last' = [NoCall EXCEPT !.op = "tick"]
    /\ UNCHANGED <<trustVars, histVars, memVars, worldVars, llmVars>>

InitializeRegistry ==
    Call("initialize", "", "", Null,
         [st |-> initializeRegistry(TrustStore, now), ret |-> Null])

RegisterAgent ==
    \E agent \in NewAgents :
        Call("registerAgent", agent.id, "", Null,
             [st |-> registerAgent(TrustStore, agent, now), ret |-> Null])

SetRelationship ==
    \E p \in CallPairs \cup SelfPairs, data \in RelationshipData :
        Call("setRelationship", p[1], p[2], data,
             IF p[1] = p[2] THEN [st |-> TrustStore, ret |-> Threw]
             ELSE setRelationship(TrustStore, p[1], p[2], data, now))

AdjustRelationshipFactor ==
    \E p \in CallPairs, fd \in FactorDeltas :
        Call("adjustRelationshipFactor", p[1], p[2], fd,
             adjustRelationshipFactor(TrustStore, p[1], p[2], fd[1], fd[2], now))

UpdateRelationshipType ==
    \E p \in CallPairs, type \in RelationshipTypes :
        Call("updateRelationshipType", p[1], p[2], type,
             updateRelationshipType(TrustStore, p[1], p[2], type, now))

AddRelationshipHistory ==
    \E p \in CallPairs, entry \in HistoryEntries :
        Call("addRelationshipHistory", p[1], p[2], entry,
             addRelationshipHistory(TrustStore, p[1], p[2], entry, now))

ProcessActionEffect ==
    \E action \in Actions :
        Call("processActionEffect", action.actorId, action.targetId, action,
             processActionEffect(TrustStore, action, now))

ImportRelationships ==
    \E parsed \in ParsedImports :
        Call("importRelationships", "", "", parsed,
             importRelationships(TrustStore, parsed, now))

NextTrust ==
    \/ Tick
    \/ InitializeRegistry
    \/ RegisterAgent
    \/ SetRelationship
    \/ AdjustRelationshipFactor
    \/ UpdateRelationshipType
    \/ AddRelationshipHistory
    \/ ProcessActionEffect
    \/ ImportRelationships

SpecTrust == Init /\ [][NextTrust]_vars


-----------------------------------------------------------------------------
(* Claims about the Trust Map, checked under SpecTrust.                    *)

\* The step is a call of op.
Called(op) == nOps' = nOps + 1 /\ last'.op = op

\* The last call was op and it returned a relationship.
Returned(op) == last.op = op /\ last.ret # Null /\ last.ret # Threw

IsPrefix(s, t) == Len(s) <= Len(t) /\ SubSeq(t, 1, Len(s)) = s

Registered(agentId) == \E i \in 1..Len(agents) : agents[i].id = agentId

\* C1: in every reachable state, for all agent ids a # b, getRelationship(a, b)
\* and getRelationship(b, a) are the same record or both null, and
\* getRelationship(a, a) is null.
C1_Symmetry ==
    \A a, b \in AgentIds :
        /\ getRelationship(relationships, a, b) = getRelationship(relationships, b, a)
        /\ getRelationship(relationships, a, a) = Null

\* C1 witness: a relationship written as (player, gm) is read as (gm, player).
C1_Witness ==
    /\ last.op = "setRelationship"
    /\ last.a = "player" /\ last.b = "gm"
    /\ getRelationship(relationships, "gm", "player") = last.ret
    /\ last.ret # Null

\* C2: a call adjustRelationshipFactor(a, b, factor, delta) on an existing
\* relationship stores max(0, min(100, current + delta)), an absent factor
\* read as 0, which lies in 0..100, and returns the stored relationship; with
\* no relationship for the pair it returns null and changes nothing.
C2_AdjustClamps ==
    [][Called("adjustRelationshipFactor") =>
        LET a == last'.a
            b == last'.b
            factor == last'.arg[1]
            delta == last'.arg[2]
            old == getRelationship(relationships, a, b)
            new == getRelationship(relationships', a, b)
            current == IF factor \in DOMAIN old.factors THEN old.factors[factor] ELSE 0
            sum == current + delta
            expected == IF sum < 0 THEN 0 ELSE IF sum > 100 THEN 100 ELSE sum
        IN  IF old = Null
            THEN last'.ret = Null /\ UNCHANGED trustVars
            ELSE /\ new # Null
                 /\ factor \in DOMAIN new.factors
                 /\ new.factors[factor] = expected
                 /\ new.factors[factor] \in 0..100
                 /\ last'.ret = new
    ]_vars

\* C2 witness: trust 90 adjusted by +1000 is stored as 100.
C2_Witness ==
    /\ Returned("adjustRelationshipFactor")
    /\ last.arg = <<"trust", 1000>>
    /\ last.ret.type = RelationshipType.FRIEND
    /\ last.ret.factors.intimacy = 99
    /\ getRelationship(relationships, last.a, last.b).factors.trust = 100

\* C3: a call processActionEffect(action) whose targetType is not character,
\* or whose targetId is unset, or whose actor is its target, or whose pair has
\* no relationship, returns null and leaves the Trust Map, the registry (with
\* the mirrors) and the World State unchanged.
C3_IgnoredActionIsNoOp ==
    [][Called("processActionEffect") =>
        LET action == last'.arg
        IN  (\/ action.targetType # "character"
             \/ action.targetId = ""
             \/ action.actorId = action.targetId
             \/ getRelationship(relationships, action.actorId, action.targetId) = Null)
            => (last'.ret = Null /\ UNCHANGED trustVars)
    ]_vars

\* C3 witness: a character-targeted action on a pair without relationship,
\* while another pair has one.
C3_Witness ==
    /\ last.op = "processActionEffect"
    /\ last.arg.targetType = "character"
    /\ last.arg.actorId = "player" /\ last.arg.targetId = "gm"
    /\ getRelationship(relationships, "player", "gm") = Null
    /\ relationships # EmptyObj
    /\ last.ret = Null

\* The value a factor is read as.
Read(relationship, factor) ==
    IF factor \in DOMAIN relationship.factors THEN relationship.factors[factor] ELSE 0

Clamped(v) == IF v < 0 THEN 0 ELSE IF v > 100 THEN 100 ELSE v

\* C4: a processActionEffect call that is not a no-op leaves each of trust,
\* intimacy and respect at clamp(old + delta, 0, 100) for the deltas of the
\* matched category (gratitude dialogue: +2, 0, +1; attack: -5, 0, -3),
\* leaves loyalty, dependency and the type as they were, and returns the
\* updated relationship.
C4_EffectApplied ==
    [][(Called("processActionEffect") /\ last'.ret # Null) =>
        LET action == last'.arg
            c == action.content
            old == getRelationship(relationships, action.actorId, action.targetId)
            new == getRelationship(relationships', action.actorId, action.targetId)
            e == new.history[Len(new.history)].effect
        IN  /\ old # Null
            /\ last'.ret = new
            /\ \A f \in {"trust", "intimacy", "respect"} :
                    Read(new, f) = Clamped(Read(old, f) + e[f])
            /\ \A f \in {"loyalty", "dependency"} :
                    /\ Read(new, f) = Read(old, f)
                    /\ (f \in DOMAIN new.factors) = (f \in DOMAIN old.factors)
            /\ new.type = old.type
            /\ (action.type = "dialogue"
                /\ (Includes(c, <<"gan", "xie">>) \/ Includes(c, <<"xie", "xie">>)))
               => e = [trust |-> 2, intimacy |-> 0, respect |-> 1]
            /\ (action.type = "action"
                /\ ~(Includes(c, <<"bang", "zhu">>) \/ Includes(c, <<"yuan", "zhu">>))
                /\ (Includes(c, <<"gong", "ji">>) \/ Includes(c, <<"shang", "hai">>)))
               => e = [trust |-> -5, intimacy |-> 0, respect |-> -3]
    ]_vars

\* C4 witness: a relationship at trust 10 received a gratitude dialogue and
\* is at trust 12.
C4_Witness ==
    /\ Returned("processActionEffect")
    /\ last.arg.type = "dialogue"
    /\ last.arg.content = <<"xie", "xie", "ni">>
    /\ last.ret.type = RelationshipType.ENEMY
    /\ Len(last.ret.history) = 1
    /\ last.ret.factors.trust = 12
    /\ last.ret.factors.respect = 41

\* C5: across adjustRelationshipFactor, updateRelationshipType,
\* addRelationshipHistory and processActionEffect calls the history of every
\* relationship before the call is a prefix of its history after it, and a
\* processActionEffect call that is not a no-op appends exactly one entry with
\* the action type, the content and the three deltas.
C5_HistoryAppendOnly ==
    [][(\/ Called("adjustRelationshipFactor")
        \/ Called("updateRelationshipType")
        \/ Called("addRelationshipHistory")
        \/ Called("processActionEffect")) =>
        /\ \A k \in DOMAIN relationships :
              /\ k \in DOMAIN relationships'
              /\ IsPrefix(relationships[k].history, relationships'[k].history)
        /\ (last'.op = "processActionEffect" /\ last'.ret # Null) =>
              LET action == last'.arg
                  old == getRelationship(relationships, action.actorId, action.targetId)
                  new == getRelationship(relationships', action.actorId, action.targetId)
                  entry == new.history[Len(new.history)]
              IN  /\ Len(new.history) = Len(old.history) + 1
                  /\ entry.actionType = action.type
                  /\ entry.content = action.content
                  /\ DOMAIN entry.effect = {"trust", "intimacy", "respect"}
                  /\ \A f \in {"trust", "intimacy", "respect"} :
                        Read(new, f) = Clamped(Read(old, f) + entry.effect[f])
    ]_vars

\* C5 witness: a second entry was appended by an action for which no keyword
\* matched, with all deltas 0.
C5_Witness ==
    /\ Returned("processActionEffect")
    /\ Len(last.ret.history) = 2
    /\ last.ret.history[2].effect = [trust |-> 0, intimacy |-> 0, respect |-> 0]
    /\ last.ret.history[2].content = <<"gong", "ji">>
    /\ last.ret.history[2].actionType = "dialogue"


\* The keyword categories of an action type, in the order the claim gives,
\* each with its deltas.
Category(kws, trust, intimacy, respect) ==
    [kws |-> kws, effect |-> [trust |-> trust, intimacy |-> intimacy, respect |-> respect]]

CategoryOrder(type) ==
    CASE type = "dialogue" ->
            <<Category(KwGratitude, 2, 0, 1), Category(KwApology, 1, 0, 2),
              Category(KwAffection, 1, 3, 0), Category(KwHostility, -1, -3, 0)>>
      [] type = "action" ->
            <<Category(KwHelp, 3, 0, 2), Category(KwAttack, -5, 0, -3),
              Category(KwEmbrace, 0, 4, 0)>>
      [] type = "item" ->
            <<Category(KwGive, 2, 1, 0), Category(KwSteal, -4, 0, -2)>>
      [] OTHER -> <<>>

Matching(cats, content) ==
    {i \in 1..Len(cats) : \E kw \in cats[i].kws : Includes(content, kw)}

FirstCategoryEffect(type, content) ==
    LET cats == CategoryOrder(type)
        m == Matching(cats, content)
    IN  IF m = {} THEN [trust |-> 0, intimacy |-> 0, respect |-> 0]
        ELSE cats[CHOOSE i \in m : \A j \in m : i <= j].effect

\* C6: the deltas processActionEffect computes and records are those of the
\* first category, in the fixed order of the action type, that has a keyword
\* in the content, and are all 0 when no category of that type has one.
C6_FirstCategoryOnly ==
    (last.op = "processActionEffect" /\ last.ret # Null) =>
        last.ret.history[Len(last.ret.history)].effect
            = FirstCategoryEffect(last.arg.type, last.arg.content)

\* C6 witness: a dialogue with an apology keyword before a gratitude keyword
\* was scored as gratitude alone.
C6_Witness ==
    /\ Returned("processActionEffect")
    /\ last.arg.content = <<"dui", "bu", "qi", "xie", "xie">>
    /\ Cardinality(Matching(CategoryOrder(last.arg.type), last.arg.content)) = 2
    /\ last.ret.history[Len(last.ret.history)].effect
          = [trust |-> 2, intimacy |-> 0, respect |-> 1]

PersistingOps ==
    {"setRelationship", "adjustRelationshipFactor", "updateRelationshipType",
     "addRelationshipHistory", "processActionEffect"}

\* C7: after a setRelationship(a, b, data), and after every operation that
\* persists through it, with a and b both registered, agent a's
\* relationships[b] and agent b's relationships[a] both equal the Trust Map
\* record of the pair.
C7_MirrorsEqualRecord ==
    (/\ last.op \in PersistingOps
     /\ last.ret # Null /\ last.ret # Threw
     /\ Registered(last.a) /\ Registered(last.b)) =>
        LET record == getRelationship(relationships, last.a, last.b)
            mirrorA == getAgent(agents, last.a).relationships
            mirrorB == getAgent(agents, last.b).relationships
        IN  /\ record # Null
            /\ last.b \in DOMAIN mirrorA /\ mirrorA[last.b] = record
            /\ last.a \in DOMAIN mirrorB /\ mirrorB[last.a] = record

\* C7 witness: an adjustment of the relationship of two registered agents.
C7_Witness ==
    /\ Returned("adjustRelationshipFactor")
    /\ Registered(last.a) /\ Registered(last.b)
    /\ getAgent(agents, last.b).relationships[last.a].factors.trust = 100

\* C8: writing the relationship of (a, b) leaves getRelationship(c, d)
\* unchanged for every pair {c, d} different from {a, b}.
C8_PairsDoNotShare ==
    [][(Called("setRelationship") /\ last'.ret # Threw) =>
        \A c, d \in AgentIds :
            (c # d /\ {c, d} # {last'.a, last'.b}) =>
                getRelationship(relationships', c, d) = getRelationship(relationships, c, d)
    ]_vars


-----------------------------------------------------------------------------
(* history.js                                                              *)

\* HistoryEntryType.ACTION is named ACTION_ENTRY here, ACTION being a TLA+
\* keyword.
HistoryEntryType ==
    [ACTION_ENTRY |-> "action", STATE_CHANGE |-> "state_change", SYSTEM |-> "system",
     NPC_RESPONSE |-> "npc_response", ENVIRONMENT |-> "environment"]

\* _generateEntryId: a fresh id, here the number of the call.
generateEntryId(n) == "entry_" \o ToString(n)

\* A mutant of addEntry: at capacity the entry just pushed is dropped.
addEntryDropNewest(hist, entry, n, t) ==
    LET completeEntry == Merge([id |-> generateEntryId(n), timestamp |-> t], entry)
        pushed == Append(hist, completeEntry)
    IN  [history |-> IF Len(pushed) > maxHistoryLength
                     THEN SubSeq(pushed, 1, Len(pushed) - 1) ELSE pushed,
         ret |-> completeEntry]

\* addEntry: id and timestamp first, the entry's own fields over them; push;
\* shift once when the length exceeds maxHistoryLength.
addEntry(hist, entry, n, t) ==
    LET completeEntry == Merge([id |-> generateEntryId(n), timestamp |-> t], entry)
        pushed == Append(hist, completeEntry)
    IN  [history |-> IF Len(pushed) > maxHistoryLength THEN Tail(pushed) ELSE pushed,
         ret |-> completeEntry]

addActionEntry(hist, action, n, t) ==
    addEntry(hist,
             [type |-> HistoryEntryType.ACTION_ENTRY, action |-> action, result |-> Null,
              actorId |-> action.actorId, content |-> action.content], n, t)

addSystemEntry(hist, eventType, message, n, t) ==
    addEntry(hist,
             [type |-> HistoryEntryType.SYSTEM, eventType |-> eventType,
              message |-> message, data |-> Null], n, t)

addNPCResponseEntry(hist, npcId, content, metadata, n, t) ==
    addEntry(hist,
             [type |-> HistoryEntryType.NPC_RESPONSE, npcId |-> npcId,
              content |-> content, metadata |-> metadata], n, t)

-----------------------------------------------------------------------------
(* The History Log specification: entries added to the empty log.          *)

HistoryCall(op, R) ==
    /\ nOps < MaxHistoryOps
    /\ nOps' = nOps + 1
    /\ history' = R.history
    /\ histInserted' = Append(histInserted, R.ret)
    /\ last' = [NoCall EXCEPT !.op = op, !.ret = R.ret]
    /\ UNCHANGED <<trustVars, now, memVars, worldVars, llmVars>>

\* The actions whose entries are logged.
LoggedActions ==
    {Action(ActionType.DIALOGUE, "player", TargetType.CHARACTER, "gm", <<"xie", "xie">>),
     Action(ActionType.PHYSICAL, "player", TargetType.NONE, "", <<"gong", "ji">>)}

AddActionEntry ==
    \E action \in LoggedActions :
        HistoryCall("addActionEntry", addActionEntry(history, action, nOps + 1, now))

AddSystemEntry ==
    HistoryCall("addSystemEntry", addSystemEntry(history, "save", <<"ok">>, nOps + 1, now))

AddNPCResponseEntry ==
    HistoryCall("addNPCResponseEntry",
                addNPCResponseEntry(history, "gm", <<"ni", "hao">>, Null, nOps + 1, now))

NextHistory ==
    \/ AddActionEntry
    \/ AddSystemEntry
    \/ AddNPCResponseEntry

SpecHistory == Init /\ [][NextHistory]_vars

\* C9: once maxHistoryLength + k entries (k >= 0) have been added to the empty
\* log, its length is maxHistoryLength and it holds exactly the last
\* maxHistoryLength entries added, in the order they were added, whatever
\* their types.
C9_FifoBound ==
    LET n == Len(histInserted)
    IN  n >= maxHistoryLength =>
            /\ Len(history) = maxHistoryLength
            /\ history = SubSeq(histInserted, n - maxHistoryLength + 1, n)

\* C9 witness: two entries more than the capacity were added and the oldest
\* entry still kept is of another type than the first one evicted.
C9_Witness ==
    /\ Len(histInserted) = maxHistoryLength + 2
    /\ Len(history) = maxHistoryLength
    /\ histInserted[1].type = "action"
    /\ history[1].type = "system"
    /\ history[Len(history)] = histInserted[Len(histInserted)]


-----------------------------------------------------------------------------
(* memory_manager.js                                                       *)

MemoryImportance == [LOW |-> 1, MEDIUM |-> 2, HIGH |-> 3, CRITICAL |-> 4]

\* The Memory Store with the registry it writes to.
MemStore(mem, am, gm, S) == [mem |-> mem, am |-> am, gm |-> gm, S |-> S]

\* _generateMemoryId: a fresh id, here the number of the generation.
generateMemoryId(n) == "memory_" \o ToString(n)

\* _updateGameStateMemories
updateGameStateMemories(M) == [M EXCEPT !.gm = M.mem]

\* _dissociateMemoryFromAgent
dissociateMemoryFromAgent(M, memoryId, agentId, t) ==
    IF agentId \notin DOMAIN M.am THEN M
    ELSE
      LET ids == M.am[agentId] \ {memoryId}
      IN  [M EXCEPT !.am = Put(M.am, agentId, ids),
                    !.S = updateAgent(M.S, agentId, [memoryIds |-> ids], t)]

\* deleteMemory
deleteMemory(M, memoryId, t) ==
    LET i == IndexOfId(M.mem, memoryId)
    IN  IF i = 0 THEN [st |-> M, ret |-> BoolRet(FALSE)]
        ELSE
          LET memory == M.mem[i]
              M1 == [M EXCEPT !.mem = SubSeq(M.mem, 1, i - 1)
                                        \o SubSeq(M.mem, i + 1, Len(M.mem))]
              M2 == IF Field(memory, "agentId", "") # ""
                    THEN dissociateMemoryFromAgent(M1, memoryId, memory.agentId, t)
                    ELSE M1
          IN  [st |-> updateGameStateMemories(M2), ret |-> BoolRet(TRUE)]

\* The forEach of _removeOldestMemory over mem[i..]: the id of the oldest
\* non-critical memory created before oldestTime, the first one among equals.
RECURSIVE oldestFrom(_, _, _, _)
oldestFrom(mem, i, oldestId, oldestTime) ==
    IF i > Len(mem) THEN oldestId
    ELSE IF mem[i].importance < MemoryImportance.CRITICAL /\ mem[i].createdAt < oldestTime
    THEN oldestFrom(mem, i + 1, mem[i].id, mem[i].createdAt)
    ELSE oldestFrom(mem, i + 1, oldestId, oldestTime)

\* A mutant of removeOldestMemory: the importance is not looked at.
removeOldestMemoryAnyImportance(M, t) ==
    LET older == {i \in 1..Len(M.mem) : M.mem[i].createdAt < t}
    IN  IF older = {} THEN M
        ELSE deleteMemory(M,
                 M.mem[CHOOSE i \in older : \A j \in older :
                          \/ M.mem[i].createdAt < M.mem[j].createdAt
                          \/ (M.mem[i].createdAt = M.mem[j].createdAt /\ i <= j)].id, t).st

\* _removeOldestMemory, oldestTime starting at Date.now() = t; no id is the
\* empty string.
removeOldestMemory(M, t) ==
    LET oldestId == oldestFrom(M.mem, 1, "", t)
    IN  IF oldestId # "" THEN deleteMemory(M, oldestId, t).st ELSE M

\* addMemory: n is the number of the id to generate, t the clock when the
\* memory is stamped, t2 the clock when the capacity is enforced.
addMemory(M, memory, n, t, t2) ==
    LET id == IF Field(memory, "id", "") = "" THEN generateMemoryId(n) ELSE memory.id
        stamped == Merge(memory,
                       [id |-> id,
                        createdAt |-> IF Field(memory, "createdAt", NoTime) = NoTime
                                      THEN t ELSE memory.createdAt,
                        updatedAt |-> t])
        M1 == [M EXCEPT !.mem = Upsert(M.mem, stamped)]
        M2 == IF Len(M1.mem) > maxMemories THEN removeOldestMemory(M1, t2) ELSE M1
    IN  [st |-> updateGameStateMemories(M2), ret |-> [id |-> id]]

-----------------------------------------------------------------------------
(* The Memory Store specification: memories added and deleted while the    *)
(* clock advances.                                                         *)

TheMemStore == MemStore(memories, agentMemories, gsMemories, TrustStore)

MemoryCall(op, a, arg, R, t2, generated) ==
    /\ nOps < MaxMemoryOps
    /\ nOps' = nOps + 1
    /\ memories' = R.st.mem
    /\ agentMemories' = R.st.am
    /\ gsMemories' = R.st.gm
    /\ Commit(R.st.S)
    /\ memGenerated' = memGenerated + generated
    /\ now' = t2
    /\ last' = [op |-> op, a |-> a, b |-> "", arg |-> arg, ret |-> R.ret]
    /\ UNCHANGED <<histVars, worldVars, llmVars>>

\* The memory argument of addMemory: of each importance without id and
\* creation time, with the id of an earlier call, with a creation time in the
\* past.
AddedMemories ==
    {[importance |-> i, accessCount |-> 0] :
        i \in {MemoryImportance.LOW, MemoryImportance.HIGH, MemoryImportance.CRITICAL}}
    \cup {[importance |-> i, accessCount |-> 0, createdAt |-> 1] :
        i \in {MemoryImportance.MEDIUM, MemoryImportance.CRITICAL}}
    \cup {[importance |-> i, accessCount |-> 0, id |-> "memory_1"] :
        i \in {MemoryImportance.LOW, MemoryImportance.CRITICAL}}

AddMemory ==
    \E memory \in AddedMemories, t2 \in {now, Min(now + 1, MaxTime)} :
        LET generated == IF Field(memory, "id", "") = "" THEN 1 ELSE 0
            R == addMemory(TheMemStore, memory, memGenerated + 1, now, t2)
        IN  MemoryCall("addMemory", R.ret.id, memory, R, t2, generated)

DeleteMemory ==
    \E id \in {memories[i].id : i \in 1..Len(memories)} \cup {"memory_0"} :
        MemoryCall("deleteMemory", id, Null, deleteMemory(TheMemStore, id, now), now, 0)

MemoryTick ==
    /\ nOps < MaxMemoryOps
    /\ now < MaxTime
    /\ nOps' = nOps + 1
    /\ now' = now + 1
    /\ last' = [NoCall EXCEPT !.op = "tick"]
    /\ UNCHANGED <<trustVars, histVars, memVars, worldVars, llmVars>>

NextMemory ==
    \/ AddMemory
    \/ DeleteMemory
    \/ MemoryTick

SpecMemory == Init /\ [][NextMemory]_vars

StoredIds(mem) == {mem[i].id : i \in 1..Len(mem)}
Stored(mem) == {mem[i] : i \in 1..Len(mem)}

\* C10: a memory being identified by its id, an addMemory call keeps every
\* stored CRITICAL memory as it is (but for the one whose id the call
\* carries, which it replaces), stores the added memory if that is CRITICAL,
\* and removes at most one memory, which is not CRITICAL and has the oldest
\* creation time of the non-critical memories.
C10_EvictionSparesCritical ==
    [][Called("addMemory") =>
        LET id == last'.ret.id
            given == last'.arg
            added == [importance |-> given.importance,
                      createdAt |-> IF "createdAt" \in DOMAIN given
                                    THEN given.createdAt ELSE now]
            evictedOld == {m \in Stored(memories) : m.id # id /\ m.id \notin StoredIds(memories')}
            evictedNew == IF id \in StoredIds(memories') THEN {} ELSE {added}
            evicted == evictedOld \cup evictedNew
        IN  /\ \A m \in Stored(memories) :
                  (m.importance = 4 /\ m.id # id) => m \in Stored(memories')
            /\ given.importance = 4 => id \in StoredIds(memories')
            /\ Cardinality(evictedOld) + Cardinality(evictedNew) <= 1
            /\ \A e \in evicted :
                  /\ e.importance < 4
                  /\ \A m \in Stored(memories') :
                        m.importance < 4 => e.createdAt <= m.createdAt
    ]_vars

\* C10 witness: one more memory than the capacity was added, each under a new
\* id, the last call evicted one, and the store holds a CRITICAL memory older
\* than a non-critical one.
C10_Witness ==
    /\ last.op = "addMemory"
    /\ nOps = maxMemories + 1
    /\ memGenerated = maxMemories + 1
    /\ Len(memories) = maxMemories
    /\ \E i, j \in 1..Len(memories) :
          /\ memories[i].importance = 4
          /\ memories[j].importance < 4
          /\ memories[i].createdAt < memories[j].createdAt

\* C11: after every addMemory call the number of stored memories is at most
\* maxMemories.
C11_CapacityBound ==
    last.op = "addMemory" => Len(memories) <= maxMemories


-----------------------------------------------------------------------------
(* agent_registry.js: import, and the Agent Registry specification.        *)

\* saveAgentsToGameState: the player record (null when there is none) and
\* the agents of type npc, in registry order.
saveAgentsToGameState(S) ==
    [S EXCEPT !.gp = getAgent(S.ag, "player"),
              !.ga = SelectSeq(S.ag, LAMBDA a : a.type = AgentType.NPC)]

\* The forEach of importAgents over the parsed elements; reading agent.id of
\* a null element throws.
RECURSIVE importAgentEntries(_, _, _)
importAgentEntries(S, entries, t) ==
    IF entries = <<>> THEN [st |-> S, threw |-> FALSE]
    ELSE IF Head(entries) = Null THEN [st |-> S, threw |-> TRUE]
    ELSE
      LET agent == Head(entries)
          existingAgent == getAgent(S.ag, agent.id)
          S1 == IF agent.id = "player" \/ agent.id = "gm"
                THEN [S EXCEPT !.ag = Upsert(S.ag,
                         Merge(Merge(IF existingAgent = Null THEN EmptyObj ELSE existingAgent,
                                     agent),
                               [updatedAt |-> t]))]
                ELSE registerAgent(S, agent, t)
      IN  importAgentEntries(S1, Tail(entries), t)

\* importAgents: a non-array is refused; the agents other than player and gm
\* are deleted, the elements imported, and the World State saved; an
\* exception on the way is caught and false returned.
importAgents(S, parsed, t) ==
    IF ~parsed.isArray THEN [st |-> S, ret |-> BoolRet(FALSE)]
    ELSE
      LET S1 == [S EXCEPT !.ag = SelectSeq(S.ag, LAMBDA a : a.id = "player" \/ a.id = "gm")]
          r == importAgentEntries(S1, parsed.entries, t)
      IN  IF r.threw THEN [st |-> r.st, ret |-> BoolRet(FALSE)]
          ELSE [st |-> saveAgentsToGameState(r.st), ret |-> BoolRet(TRUE)]

\* The updates argument of updateAgent; none carries an id.
AgentUpdates == {[name |-> "renamed"], [type |-> AgentType.ENVIRONMENT]}

\* The parsed argument of importAgents.
ParsedAgentImports ==
    {[isArray |-> FALSE, entries |-> <<>>],
     [isArray |-> TRUE, entries |-> <<>>],
     [isArray |-> TRUE,
      entries |-> <<[id |-> "player", type |-> AgentType.PLAYER, name |-> "hero"],
                    [id |-> "x_player", type |-> AgentType.NPC]>>],
     [isArray |-> TRUE,
      entries |-> <<[id |-> "x_player", type |-> AgentType.NPC], Null>>]}

UpdateAgent ==
    \E agentId \in AgentIds, updates \in AgentUpdates :
        LET S == updateAgent(TrustStore, agentId, updates, now)
        IN  Call("updateAgent", agentId, "", updates,
                 [st |-> S, ret |-> getAgent(S.ag, agentId)])

RemoveAgent ==
    \E agentId \in AgentIds :
        Call("removeAgent", agentId, "", Null, removeAgent(TrustStore, agentId))

ImportAgents ==
    \E parsed \in ParsedAgentImports :
        Call("importAgents", "", "", parsed, importAgents(TrustStore, parsed, now))

NextRegistry ==
    \/ Tick
    \/ InitializeRegistry
    \/ RegisterAgent
    \/ UpdateAgent
    \/ RemoveAgent
    \/ ImportAgents

SpecRegistry == Init /\ [][NextRegistry]_vars

\* C12: removeAgent('player') and removeAgent('gm') return false and change
\* nothing, and across every register, update, remove and import call an
\* agent player or gm that is registered stays registered.
C12_ReservedStay ==
    [][/\ \A id \in {"player", "gm"} : Registered(id) => Registered(id)'
       /\ (Called("removeAgent") /\ last'.a \in {"player", "gm"}) =>
             (last'.ret = BoolRet(FALSE) /\ UNCHANGED trustVars)
    ]_vars

\* C12 witness: the third call is a removeAgent of a reserved id, refused,
\* with player and gm the two registered agents.
C12_Witness ==
    /\ last.op = "removeAgent"
    /\ last.a \in {"player", "gm"}
    /\ last.ret = BoolRet(FALSE)
    /\ Registered("player") /\ Registered("gm")
    /\ Len(agents) = 2
    /\ nOps = 3


\* The registry's records of type npc.
RegistryNPCs == {agents[i] : i \in {j \in 1..Len(agents) : agents[j].type = AgentType.NPC}}

\* C13: after every registerAgent, updateAgent and removeAgent call the World
\* State agents list holds exactly the NPC records of the registry, each once,
\* and the World State player slot carries every field of the registry's
\* player record.
C13_RegistryWorldSync ==
    last.op \in {"registerAgent", "updateAgent", "removeAgent"} =>
        /\ {gsAgents[i] : i \in 1..Len(gsAgents)} = RegistryNPCs
        /\ Len(gsAgents) = Cardinality(RegistryNPCs)
        /\ Registered("player") =>
              LET player == getAgent(agents, "player")
              IN  /\ gsPlayer # Null
                  /\ \A k \in DOMAIN player : k \in DOMAIN gsPlayer /\ gsPlayer[k] = player[k]


-----------------------------------------------------------------------------
(* agent_policy.js                                                         *)

\* ResponseType.ACTION is named PHYSICAL here, as in ActionType.
ResponseType ==
    [DIALOGUE |-> "dialogue", PHYSICAL |-> "action", EMOTION |-> "emotion",
     DECISION |-> "decision", REJECTION |-> "rejection"]

\* The keywords of a request for a decision.
KwRequest == {<<"qing", "qiu">>, <<"bang", "zhu">>}

\* The relationship part of _prepareResponseContext: the type and the three
\* factors it copies; a factor the record lacks is undefined, here absent.
contextRelationship(relationship) ==
    IF relationship = Null THEN Null
    ELSE [k \in {"type"} \cup ({"trust", "intimacy", "respect"} \cap DOMAIN relationship.factors)
            |-> IF k = "type" THEN relationship.type ELSE relationship.factors[k]]

\* A mutant of determineResponseType: the emotion rule comes first.
determineResponseTypeEmotionFirst(context, random) ==
    IF Field(context.agent, "emotionIntensity", 0) > 70 THEN ResponseType.EMOTION
    ELSE IF context.action.type = "dialogue" /\ context.action.targetId = context.agent.id
    THEN ResponseType.DIALOGUE
    ELSE IF IncludesAny(context.action.content, KwRequest) THEN ResponseType.DECISION
    ELSE IF /\ context.relationship # Null
            /\ "trust" \in DOMAIN context.relationship
            /\ context.relationship.trust < 20
    THEN IF random > 700 THEN ResponseType.REJECTION ELSE ResponseType.DIALOGUE
    ELSE ResponseType.DIALOGUE

\* _determineResponseType; random is Math.random() in thousandths.  An
\* undefined emotionIntensity is not above 70 and an undefined trust is not
\* below 20.
determineResponseType(context, random) ==
    IF context.action.type = "dialogue" /\ context.action.targetId = context.agent.id
    THEN ResponseType.DIALOGUE
    ELSE IF Field(context.agent, "emotionIntensity", 0) > 70 THEN ResponseType.EMOTION
    ELSE IF IncludesAny(context.action.content, KwRequest) THEN ResponseType.DECISION
    ELSE IF /\ context.relationship # Null
            /\ "trust" \in DOMAIN context.relationship
            /\ context.relationship.trust < 20
    THEN IF random > 700 THEN ResponseType.REJECTION ELSE ResponseType.DIALOGUE
    ELSE ResponseType.DIALOGUE

-----------------------------------------------------------------------------
(* The response type specification: _determineResponseType applied to the  *)
(* contexts below.                                                         *)

\* The agent of the context: without an emotion intensity, at 70, 71 and 90.
ContextAgents ==
    {[id |-> "gm_x", type |-> AgentType.NPC]}
    \cup {[id |-> "gm_x", type |-> AgentType.NPC, emotionIntensity |-> e] : e \in {70, 71, 90}}

\* The action of the context: a dialogue or a physical action, aimed at the
\* agent or at another one, with a request keyword or without.
ContextActions ==
    {Action(type, "player", TargetType.CHARACTER, targetId, content) :
        type \in {ActionType.DIALOGUE, ActionType.PHYSICAL},
        targetId \in {"gm_x", "gm"},
        content \in {<<"qing", "qiu", "ni">>, <<"bang", "zhu">>, <<"ni", "hao">>}}

\* The relationship with the actor: none, trust 19, trust 20, no trust factor.
ContextRelationships ==
    {Null}
    \cup {Merge(DEFAULT_RELATIONSHIP, [factors |-> [trust |-> t, intimacy |-> 50, respect |-> 50]]) :
            t \in {19, 20}}
    \cup {Merge(DEFAULT_RELATIONSHIP, [factors |-> [respect |-> 40]])}

\* Math.random() in thousandths, on both sides of 0.7.
Randoms == {0, 700, 701, 999}

DetermineResponseType ==
    \E agent \in ContextAgents, action \in ContextActions,
       relationship \in ContextRelationships, random \in Randoms :
        LET context == [agent |-> agent, action |-> action,
                        relationship |-> contextRelationship(relationship)]
        IN  /\ nOps' = 1
            /\ last' = [op |-> "determineResponseType", a |-> agent.id, b |-> "",
                        arg |-> [context |-> context, random |-> random],
                        ret |-> [type |-> determineResponseType(context, random)]]
            /\ UNCHANGED <<trustVars, now, histVars, memVars, worldVars, llmVars>>

NextResponseType == DetermineResponseType

SpecResponseType == Init /\ [][NextResponseType]_vars

\* The rules of the claim, in its order: which one is the first to apply.
DirectDialogue(context) ==
    context.action.type = "dialogue" /\ context.action.targetId = context.agent.id
Intense(context) ==
    "emotionIntensity" \in DOMAIN context.agent /\ context.agent.emotionIntensity > 70
Requesting(context) ==
    \E kw \in KwRequest : Includes(context.action.content, kw)
Distrusting(context) ==
    /\ context.relationship # Null
    /\ "trust" \in DOMAIN context.relationship
    /\ context.relationship.trust < 20

\* C14: the response type is DIALOGUE for a dialogue aimed at the agent;
\* otherwise EMOTION when the emotion intensity is above 70; otherwise
\* DECISION when the content has a request keyword; otherwise REJECTION or
\* DIALOGUE when there is a relationship with trust below 20; otherwise
\* DIALOGUE.
C14_FirstMatchDecisionList ==
    last.op = "determineResponseType" =>
        LET c == last.arg.context
            type == last.ret.type
        IN  /\ DirectDialogue(c) => type = "dialogue"
            /\ (~DirectDialogue(c) /\ Intense(c)) => type = "emotion"
            /\ (~DirectDialogue(c) /\ ~Intense(c) /\ Requesting(c)) => type = "decision"
            /\ (~DirectDialogue(c) /\ ~Intense(c) /\ ~Requesting(c) /\ Distrusting(c)) =>
                  type \in {"rejection", "dialogue"}
            /\ (~DirectDialogue(c) /\ ~Intense(c) /\ ~Requesting(c) /\ ~Distrusting(c)) =>
                  type = "dialogue"

\* C14 witness: a dialogue with a request keyword, aimed at an agent of
\* intensity 90 that distrusts the actor, answered by DIALOGUE.
C14_Witness ==
    /\ last.op = "determineResponseType"
    /\ DirectDialogue(last.arg.context)
    /\ Intense(last.arg.context)
    /\ Field(last.arg.context.agent, "emotionIntensity", 0) = 90
    /\ Requesting(last.arg.context)
    /\ Distrusting(last.arg.context)
    /\ last.ret.type = "dialogue"


-----------------------------------------------------------------------------
(* agent_policy.js: generateResponse and the batches.                      *)

EmotionalState ==
    [HAPPY |-> "happy", SAD |-> "sad", ANGRY |-> "angry", FEARFUL |-> "fearful",
     DISGUSTED |-> "disgusted", SURPRISED |-> "surprised", NEUTRAL |-> "neutral"]

KwGreeting == {<<"ni", "hao">>, <<"hai">>}
KwGoodbye == {<<"zai", "jian">>}

\* GameState.reset(): state.environment.currentLocation.
currentLocation == "default"

\* The history with the ids it has given out, and the stores.
PolicyStore(S, hist, inserted) == [S |-> S, hist |-> hist, inserted |-> inserted]

\* The agent part of _prepareResponseContext; a field the agent lacks is
\* undefined, here absent.
contextAgent(agent) ==
    [k \in {"id", "type", "personality", "currentEmotion", "emotionIntensity"}
              \cap DOMAIN agent |-> agent[k]]

\* An exception and the REJECTION response the catch blocks build from it.
Thrown(message) == [threw |-> TRUE, error |-> message]
ErrorResponse(message) ==
    [type |-> ResponseType.REJECTION, content |-> <<"wu", "fa">>, error |-> message]

\* _calculateEmotionIntensity, in whole numbers; reading a trait of an
\* undefined personality throws.
calculateEmotionIntensity(agent) ==
    LET base == Field(agent, "emotionIntensity", 0)
        intensity == IF base = 0 THEN 50 ELSE base
        trait == Field(agent.personality, "neuroticism", 0)
        neuroticism == IF trait = 0 THEN 50 ELSE trait
    IN  Max(0, Min(100, (intensity * (50 + neuroticism)) \div 100))

\* _generateDialogueResponse: the emotion of the answer.
dialogueEmotion(agent, context) ==
    LET content == context.action.content
        trusting == /\ context.relationship # Null
                    /\ "trust" \in DOMAIN context.relationship
                    /\ context.relationship.trust > 60
    IN  IF IncludesAny(content, KwGreeting) THEN EmotionalState.HAPPY
        ELSE IF IncludesAny(content, KwGratitude) THEN EmotionalState.HAPPY
        ELSE IF IncludesAny(content, KwApology)
        THEN IF trusting THEN EmotionalState.HAPPY ELSE EmotionalState.NEUTRAL
        ELSE IF IncludesAny(content, KwGoodbye) THEN EmotionalState.NEUTRAL
        ELSE Field(agent, "currentEmotion", "")

\* The Number arithmetic of the cooperation score.  A Number is a sign and a
\* magnitude counted in units of 2^-55, the magnitude held as four digits of
\* base 2^16, the lowest first; every value met here is below 2^7, and a
\* product or a sum is rounded to 53 significant bits, ties to even.
Base == 2^16

\* The Numbers nearest to the literals 0.5, 0.3, 0.2, 0.6 and 0.4, and 1.
Num_0_5 == <<0, 0, 0, 64>>
Num_0_3 == <<26214, 26214, 26214, 38>>
Num_0_2 == <<39322, 39321, 39321, 25>>
Num_0_6 == <<52428, 52428, 52428, 76>>
Num_0_4 == <<13108, 13107, 13107, 51>>
Num_1 == <<0, 0, 0, 128>>

MulSmall(m, d) ==
    LET p1 == m[1] * d
        p2 == m[2] * d + p1 \div Base
        p3 == m[3] * d + p2 \div Base
        p4 == m[4] * d + p3 \div Base
    IN  <<p1 % Base, p2 % Base, p3 % Base, p4>>

AddMag(x, y) ==
    LET s1 == x[1] + y[1]
        s2 == x[2] + y[2] + s1 \div Base
        s3 == x[3] + y[3] + s2 \div Base
        s4 == x[4] + y[4] + s3 \div Base
    IN  <<s1 % Base, s2 % Base, s3 % Base, s4>>

LessMag(x, y) ==
    \E i \in 1..4 : x[i] < y[i] /\ \A j \in (i + 1)..4 : x[j] = y[j]

\* x - y for y not above x.
SubMag(x, y) ==
    LET d1 == x[1] - y[1]
        b1 == IF d1 < 0 THEN 1 ELSE 0
        d2 == x[2] - y[2] - b1
        b2 == IF d2 < 0 THEN 1 ELSE 0
        d3 == x[3] - y[3] - b2
        b3 == IF d3 < 0 THEN 1 ELSE 0
    IN  <<d1 + b1 * Base, d2 + b2 * Base, d3 + b3 * Base, x[4] - y[4] - b3>>

\* The number of bits of a magnitude.
BitLen(m) ==
    IF \A i \in 1..4 : m[i] = 0 THEN 0
    ELSE LET top == CHOOSE i \in 1..4 : m[i] # 0 /\ \A j \in (i + 1)..4 : m[j] = 0
             bits == CHOOSE b \in 1..31 : m[top] < 2^b /\ m[top] >= 2^(b - 1)
         IN  16 * (top - 1) + bits

\* Rounding to 53 significant bits, ties to even; at most 9 bits go.
RoundMag(m) ==
    LET k == BitLen(m) - 53
    IN  IF k <= 0 THEN m
        ELSE LET q == 2^k
                 rem == m[1] % q
                 down == [m EXCEPT ![1] = @ - rem]
                 odd == (m[1] \div q) % 2 = 1
             IN  IF 2 * rem > q \/ (2 * rem = q /\ odd)
                 THEN AddMag(down, <<q, 0, 0, 0>>)
                 ELSE down

Abs(i) == IF i < 0 THEN -i ELSE i

\* i * c for an integer i and the magnitude c of a positive Number.
NumTimes(i, c) == [neg |-> i < 0, mag |-> RoundMag(MulSmall(c, Abs(i)))]

\* x + y
NumPlus(x, y) ==
    IF x.neg = y.neg THEN [neg |-> x.neg, mag |-> RoundMag(AddMag(x.mag, y.mag))]
    ELSE IF LessMag(x.mag, y.mag)
    THEN [neg |-> y.neg, mag |-> RoundMag(SubMag(y.mag, x.mag))]
    ELSE [neg |-> x.neg, mag |-> RoundMag(SubMag(x.mag, y.mag))]

\* x > i for an integer i.
NumAbove(x, i) ==
    LET y == NumTimes(i, Num_1)
        xZero == BitLen(x.mag) = 0
        yZero == i = 0
    IN  CASE xZero /\ yZero -> FALSE
          [] xZero -> y.neg
          [] yZero -> ~x.neg
          [] x.neg /\ ~y.neg -> FALSE
          [] ~x.neg /\ y.neg -> TRUE
          [] ~x.neg -> LessMag(y.mag, x.mag)
          [] OTHER -> LessMag(x.mag, y.mag)

DecisionType ==
    [COOPERATE |-> "cooperate", COMPETE |-> "compete", AVOID |-> "avoid",
     HELP |-> "help", ATTACK |-> "attack", NEUTRAL |-> "neutral"]

\* The cooperation score of _generateDecisionResponse, summed as the code
\* sums it, starting from 0.
cooperationScore(p, r) ==
    LET s1 == NumPlus(NumTimes(0, Num_1), NumTimes(p.agreeableness - 50, Num_0_5))
        s2 == NumPlus(s1, NumTimes(p.extraversion - 50, Num_0_3))
        s3 == NumPlus(s2, NumTimes(50 - p.neuroticism, Num_0_2))
    IN  IF r = Null THEN s3
        ELSE NumPlus(NumPlus(s3, NumTimes(r.trust - 50, Num_0_6)),
                     NumTimes(r.respect - 50, Num_0_4))

\* The thresholds of _generateDecisionResponse.
decisionOf(score) ==
    IF NumAbove(score, 30) THEN DecisionType.COOPERATE
    ELSE IF NumAbove(score, 10) THEN DecisionType.HELP
    ELSE IF NumAbove(score, -10) THEN DecisionType.NEUTRAL
    ELSE IF NumAbove(score, -30) THEN DecisionType.AVOID
    ELSE DecisionType.COMPETE

\* Ten times the sum of _generateDecisionResponse in exact arithmetic.  The
\* sum the code computes is within 2^-40 of it, so the two are on the same
\* side of every threshold the exact sum is not on.
exactScore(p, r) ==
    5 * (p.agreeableness - 50) + 3 * (p.extraversion - 50) + 2 * (50 - p.neuroticism)
    + (IF r = Null THEN 0 ELSE 6 * (r.trust - 50) + 4 * (r.respect - 50))

\* The thresholds of _generateDecisionResponse for a sum that is on none of
\* them, given as its exact tenths.
decisionOffThreshold(tenths) ==
    IF tenths > 300 THEN DecisionType.COOPERATE
    ELSE IF tenths > 100 THEN DecisionType.HELP
    ELSE IF tenths > -100 THEN DecisionType.NEUTRAL
    ELSE IF tenths > -300 THEN DecisionType.AVOID
    ELSE DecisionType.COMPETE

\* The decision type of _generateDecisionResponse; a missing trait or
\* factor makes the score NaN, which passes no threshold.
decisionType(agent, context) ==
    LET p == agent.personality
        r == context.relationship
        isNaN == \/ {"agreeableness", "extraversion", "neuroticism"} \cap DOMAIN p
                        # {"agreeableness", "extraversion", "neuroticism"}
                 \/ (r # Null /\ {"trust", "respect"} \cap DOMAIN r # {"trust", "respect"})
        exact == exactScore(p, r)
    IN  IF isNaN THEN DecisionType.COMPETE
        ELSE IF exact \in {300, 100, -100, -300} THEN decisionOf(cooperationScore(p, r))
        ELSE decisionOffThreshold(exact)

\* _generateDecisionResponse: the emotion of each decision.
DecisionEmotion ==
    [cooperate |-> EmotionalState.HAPPY, help |-> EmotionalState.NEUTRAL,
     neutral |-> EmotionalState.NEUTRAL, avoid |-> EmotionalState.FEARFUL,
     compete |-> EmotionalState.ANGRY]

\* _generateDecisionResponse: the emotion of the decision.
decisionEmotion(agent, context) == DecisionEmotion[decisionType(agent, context)]

\* _generateActionResponse: the emotion of the response.
actionEmotion(agent, context) ==
    LET content == context.action.content
    IN  IF IncludesAny(content, KwAttack) THEN EmotionalState.FEARFUL
        ELSE IF IncludesAny(content, {<<"gei", "yu">>, <<"di", "gei">>})
        THEN EmotionalState.NEUTRAL
        ELSE IF Includes(content, <<"yong", "bao">>) THEN EmotionalState.HAPPY
        ELSE Field(agent, "currentEmotion", "")

\* The switch of _generateNPCResponse: the response of the determined type,
\* or what it throws.
responseOfType(agent, context, type) ==
    IF type = ResponseType.REJECTION
    THEN [type |-> type, content |-> <<"bu", "xiang">>, reason |-> "unfit"]
    ELSE IF "personality" \notin DOMAIN agent
    THEN Thrown("cannot read properties of undefined")
    ELSE [type |-> type, content |-> <<type>>,
          emotion |-> CASE type = ResponseType.DIALOGUE -> dialogueEmotion(agent, context)
                        [] type = ResponseType.DECISION -> decisionEmotion(agent, context)
                        [] type = ResponseType.PHYSICAL -> actionEmotion(agent, context)
                        [] OTHER -> Field(agent, "currentEmotion", ""),
          emotionIntensity |-> calculateEmotionIntensity(agent)]

\* _generateNPCResponse
generateNPCResponse(agent, context, random) ==
    responseOfType(agent, context, determineResponseType(context, random))

\* The response of the agent by its type, or what generating it throws.
responseOfAgent(agent, context, random) ==
    CASE agent.type = AgentType.NPC -> generateNPCResponse(agent, context, random)
      [] agent.type = AgentType.GM ->
            [type |-> ResponseType.DIALOGUE, content |-> <<"narrative">>,
             emotion |-> EmotionalState.NEUTRAL, emotionIntensity |-> 50]
      [] agent.type = AgentType.ENVIRONMENT ->
            [type |-> ResponseType.DIALOGUE, content |-> <<"environment">>,
             emotion |-> ""]
      [] OTHER -> Thrown("unsupported agent type")

\* A mutant of recordResponse: the emotion of the response is written to the
\* agent even when it is the emotion the agent has.
recordResponseAlways(P, agentId, agent, response, t) ==
    IF "threw" \in DOMAIN response
    THEN [st |-> P, response |-> ErrorResponse(response.error)]
    ELSE IF Field(response, "emotion", "") = "" THEN [st |-> P, response |-> response]
    ELSE [st |-> [P EXCEPT !.S = updateAgent(P.S, agentId,
                      [currentEmotion |-> response.emotion,
                       emotionIntensity |-> response.emotionIntensity], t)],
          response |-> response]

\* The end of generateResponse: the history entry of a dialogue response and
\* the emotion update; an exception becomes a REJECTION response.
recordResponse(P, agentId, agent, response, t) ==
    IF "threw" \in DOMAIN response
    THEN [st |-> P, response |-> ErrorResponse(response.error)]
    ELSE
      LET logged == addNPCResponseEntry(P.hist, agentId, response.content,
                        [emotion |-> Field(agent, "currentEmotion", ""),
                         intensity |-> Field(agent, "emotionIntensity", 0)],
                        Len(P.inserted) + 1, t)
          P1 == IF response.type = ResponseType.DIALOGUE
                THEN [P EXCEPT !.hist = logged.history,
                               !.inserted = Append(P.inserted, logged.ret)]
                ELSE P
          emotion == Field(response, "emotion", "")
          given == Field(response, "emotionIntensity", 0)
          own == Field(agent, "emotionIntensity", 0)
          intensity == IF given # 0 THEN given ELSE IF own # 0 THEN own ELSE 50
          P2 == IF emotion # "" /\ emotion # Field(agent, "currentEmotion", "")
                THEN [P1 EXCEPT !.S = updateAgent(P1.S, agentId,
                          [currentEmotion |-> emotion,
                           emotionIntensity |-> intensity], t)]
                ELSE P1
      IN  [st |-> P2, response |-> response]

\* The context generateResponse prepares.
responseContext(P, agentId, agent, action) ==
    [agent |-> contextAgent(agent), action |-> action,
     relationship |-> contextRelationship(
                          IF action.actorId # ""
                          THEN getRelationship(P.S.rel, agentId, action.actorId)
                          ELSE Null)]

\* generateResponse: the response, with the history entry of a dialogue and
\* the emotion update; every exception becomes a REJECTION response.
generateResponse(P, agentId, action, random, t) ==
    LET agent == getAgent(P.S.ag, agentId)
    IN  IF agent = Null
        THEN [st |-> P, response |-> ErrorResponse("agent does not exist")]
        ELSE recordResponse(P, agentId, agent,
                 responseOfAgent(agent, responseContext(P, agentId, agent, action), random),
                 t)

\* A mutant of generateMultipleResponses: the batch ends at the first
\* response that failed.
RECURSIVE generateMultipleResponsesAborting(_, _, _, _, _)
generateMultipleResponsesAborting(P, agentIds, action, randoms, t) ==
    IF agentIds = <<>> THEN [st |-> P, responses |-> <<>>]
    ELSE
      LET r == generateResponse(P, Head(agentIds), action, Head(randoms), t)
          rest == generateMultipleResponsesAborting(r.st, Tail(agentIds), action,
                                                    Tail(randoms), t)
      IN  IF "error" \in DOMAIN r.response THEN [st |-> r.st, responses |-> <<>>]
          ELSE [st |-> rest.st,
                responses |-> <<[agentId |-> Head(agentIds), response |-> r.response]>>
                              \o rest.responses]

\* The loop of generateMultipleResponses after the response r of the first
\* agent id: the pair of r, then those of the other ids.
RECURSIVE generateMultipleResponses(_, _, _, _, _)
pairThenRest(r, agentIds, action, randoms, t) ==
    [generateMultipleResponses(r.st, Tail(agentIds), action, Tail(randoms), t)
        EXCEPT !.responses = <<[agentId |-> Head(agentIds), response |-> r.response]>> \o @]

\* generateMultipleResponses: one pair per agent id, in order; randoms are
\* the values Math.random() takes for each of them.
generateMultipleResponses(P, agentIds, action, randoms, t) ==
    IF agentIds = <<>> THEN [st |-> P, responses |-> <<>>]
    ELSE pairThenRest(generateResponse(P, Head(agentIds), action, Head(randoms), t),
                      agentIds, action, randoms, t)

\* The ids generateSceneResponses asks: the NPCs at the current location, in
\* registry order, then the gm.
sceneAgentIds(ag) ==
    LET npcs == SelectSeq(ag, LAMBDA a : a.type = AgentType.NPC
                                         /\ Field(a, "location", "") = currentLocation)
    IN  [i \in 1..Len(npcs) |-> npcs[i].id] \o <<"gm">>

\* generateSceneResponses
generateSceneResponses(P, action, randoms, t) ==
    generateMultipleResponses(P, sceneAgentIds(P.S.ag), action, randoms, t)

-----------------------------------------------------------------------------
(* The scene specification: agents registered, a relationship set, and     *)
(* scene responses generated.                                              *)

\* The agents registered: NPCs here, elsewhere, as the character form
\* builds them (no personality), agitated, and a record that takes the id of
\* the gm with a type that has no response.
SceneAgents ==
    {Merge(DEFAULT_AGENT_TEMPLATE, [id |-> "gm_x"]),
     Merge(DEFAULT_AGENT_TEMPLATE, [id |-> "gm_x", emotionIntensity |-> 90,
                                    currentEmotion |-> EmotionalState.ANGRY]),
     Merge(DEFAULT_AGENT_TEMPLATE, [id |-> "x_player", location |-> "tavern"]),
     [id |-> "x_player", type |-> AgentType.NPC, location |-> "default"],
     Merge(DEFAULT_AGENT_TEMPLATE, [id |-> "gm", type |-> AgentType.PLAYER])}

\* The actions answered: thanks said to an NPC, help asked of the gm, a
\* greeting to nobody.
SceneActions ==
    {Action(ActionType.DIALOGUE, "player", TargetType.CHARACTER, "gm_x", <<"xie", "xie">>),
     Action(ActionType.PHYSICAL, "player", TargetType.CHARACTER, "gm", <<"bang", "zhu">>),
     Action(ActionType.DIALOGUE, "player", TargetType.NONE, "", <<"ni", "hao">>)}

\* The relationship set between the player and an NPC: one of low trust.
SceneRelationships == {[factors |-> [trust |-> 10, intimacy |-> 50, respect |-> 50]]}

\* Math.random() for each agent asked, gm included.
SceneRandoms == {<<r1, r2, 0>> : r1, r2 \in {700, 701}}

SceneRegisterAgent ==
    \E agent \in SceneAgents :
        Call("registerAgent", agent.id, "", agent,
             [st |-> registerAgent(TrustStore, agent, now), ret |-> Null])

SceneSetRelationship ==
    \E npc \in {"gm_x", "x_player"}, data \in SceneRelationships :
        Call("setRelationship", "player", npc, data,
             setRelationship(TrustStore, "player", npc, data, now))

\* A call on the Response Policy: R holds the stores it leaves (st) and the
\* responses it returns.
PolicyCall(op, arg, R) ==
    /\ nOps < MaxOps
    /\ nOps' = nOps + 1
    /\ Commit(R.st.S)
    /\ history' = R.st.hist
    /\ histInserted' = R.st.inserted
    /\ last' = [op |-> op, a |-> "", b |-> "", arg |-> arg,
                ret |-> [responses |-> R.responses]]
    /\ UNCHANGED <<now, memVars, worldVars, llmVars>>

GenerateSceneResponses ==
    \E action \in SceneActions, randoms \in SceneRandoms :
        PolicyCall("generateSceneResponses", action,
                   generateSceneResponses(PolicyStore(TrustStore, history, histInserted),
                                          action, randoms, now))

NextScene ==
    \/ InitializeRegistry
    \/ SceneRegisterAgent
    \/ SceneSetRelationship
    \/ GenerateSceneResponses

SpecScene == Init /\ [][NextScene]_vars

\* Generating the response of this agent fails: it is not registered or its
\* type is none of npc, gm, environment.
Unanswerable(ag, agentId) ==
    \/ getAgent(ag, agentId) = Null
    \/ getAgent(ag, agentId).type \notin {"npc", "gm", "environment"}

\* C15: a generateSceneResponses call returns (it does not throw) one pair for
\* each NPC whose location is the current location, in registry order, then
\* one pair for gm; the pair of an agent that is not registered or has an
\* unsupported type carries a REJECTION response with an error message, and
\* the pairs of the other agents are there all the same.
C15_SceneBatchComplete ==
    [][Called("generateSceneResponses") =>
        LET here == SelectSeq(agents, LAMBDA a :
                        a.type = "npc" /\ "location" \in DOMAIN a /\ a.location = "default")
            pairs == last'.ret.responses
        IN  /\ last'.ret # Threw
            /\ Len(pairs) = Len(here) + 1
            /\ \A i \in 1..Len(here) : pairs[i].agentId = here[i].id
            /\ pairs[Len(pairs)].agentId = "gm"
            /\ \A i \in 1..Len(pairs) :
                  /\ "type" \in DOMAIN pairs[i].response
                  /\ Unanswerable(agents, pairs[i].agentId) =>
                        /\ pairs[i].response.type = "rejection"
                        /\ "error" \in DOMAIN pairs[i].response
    ]_vars

\* C15 witness: one NPC is here; generating its response failed and gave a
\* REJECTION with the error, and the gm after it answered with a dialogue.
C15_Witness ==
    /\ last.op = "generateSceneResponses"
    /\ Len(last.ret.responses) = 2
    /\ "error" \in DOMAIN last.ret.responses[1].response
    /\ last.ret.responses[1].agentId = "x_player"
    /\ last.ret.responses[2].agentId = "gm"
    /\ last.ret.responses[2].response.type = "dialogue"
    /\ "error" \notin DOMAIN last.ret.responses[2].response


-----------------------------------------------------------------------------
(* llm_adapter.js: the request queue and the retries of sendRequest.       *)

\* The field of DEFAULT_CONFIG the claims are about.
DEFAULT_CONFIG == [retries |-> 3]

\* The adapter: its queue, its flag, its last request time, the running
\* _processQueue invocations and the provider calls made.
Adapter(queue, processing, lastTime, workers, calls) ==
    [queue |-> queue, processing |-> processing, lastTime |-> lastTime,
     workers |-> workers, calls |-> calls]

RemoveAt(seq, i) == SubSeq(seq, 1, i - 1) \o SubSeq(seq, i + 1, Len(seq))

\* if (this.isProcessingQueue) return
alreadyProcessing(flag) == flag

\* A mutant of shiftRequest: the newest request is taken.
popRequest(queue) ==
    [item |-> queue[Len(queue)], rest |-> SubSeq(queue, 1, Len(queue) - 1)]

\* this.requestQueue.shift()
shiftRequest(queue) == [item |-> Head(queue), rest |-> Tail(queue)]

\* sendRequest reaches the provider: worker w has a call in flight from t on.
\* options are those of this attempt, given those of the queueRequest call.
startCall(L, w, req, options, given, t) ==
    [L EXCEPT !.workers[w] = [at |-> "calling", req |-> req, options |-> options,
                              given |-> given, call |-> Len(L.calls) + 1],
              !.calls = Append(@, [req |-> req, given |-> given, start |-> t, end |-> 0,
                                   outcome |-> "pending"])]

\* The head of the while loop of _processQueue for worker w: with the queue
\* empty the flag is cleared and the invocation ends; otherwise the next
\* request is taken and either waited for or sent.
serveNext(L, w, t) ==
    IF L.queue = <<>>
    THEN [L EXCEPT !.processing = FALSE, !.workers = RemoveAt(@, w)]
    ELSE
      LET next == shiftRequest(L.queue)
          timeToWait == Max(0, L.lastTime + rateLimitDelay - t)
          L1 == [L EXCEPT !.queue = next.rest]
      IN  IF timeToWait > 0
          THEN [L1 EXCEPT !.workers[w] =
                   [at |-> "waiting", req |-> next.item.req, options |-> next.item.options,
                    given |-> next.item.options, wake |-> t + timeToWait]]
          ELSE startCall(L1, w, next.item.req, next.item.options, next.item.options, t)

\* queueRequest: push, then _processQueue up to its first await.
queueRequest(L, req, options, t) ==
    LET L1 == [L EXCEPT !.queue = Append(@, [req |-> req, options |-> options])]
    IN  IF alreadyProcessing(L1.processing) THEN L1
        ELSE serveNext([L1 EXCEPT !.processing = TRUE,
                                  !.workers = Append(@, [at |-> "entering"])],
                       Len(L1.workers) + 1, t)

\* A mutant of providerResponds: a rejected request ends the invocation.
providerRespondsStopping(L, w, ok, t) ==
    LET worker == L.workers[w]
        retry == ~ok /\ "retries" \in DOMAIN worker.options /\ worker.options.retries > 0
        L1 == [L EXCEPT !.calls[worker.call].end = t,
                        !.calls[worker.call].outcome =
                            IF ok THEN "resolved" ELSE IF retry THEN "retried" ELSE "rejected"]
    IN  IF retry
        THEN startCall(L1, w, worker.req,
                       [worker.options EXCEPT !.retries = @ - 1], worker.given, t)
        ELSE IF ok THEN serveNext([L1 EXCEPT !.lastTime = t], w, t)
        ELSE [L1 EXCEPT !.processing = FALSE, !.workers = RemoveAt(@, w)]

\* The provider call of worker w ends at t.  A failure with options.retries
\* above 0 is followed at once by the next attempt; otherwise the promise of
\* the request is settled, lastRequestTime is set and the loop goes on.
providerResponds(L, w, ok, t) ==
    LET worker == L.workers[w]
        retry == ~ok /\ "retries" \in DOMAIN worker.options /\ worker.options.retries > 0
        L1 == [L EXCEPT !.calls[worker.call].end = t,
                        !.calls[worker.call].outcome =
                            IF ok THEN "resolved" ELSE IF retry THEN "retried" ELSE "rejected"]
    IN  IF retry
        THEN startCall(L1, w, worker.req,
                       [worker.options EXCEPT !.retries = @ - 1], worker.given, t)
        ELSE serveNext([L1 EXCEPT !.lastTime = t], w, t)

-----------------------------------------------------------------------------
(* The adapter specification: requests queued while the queue is served    *)
(* and the clock advances.                                                 *)

TheAdapter ==
    Adapter(requestQueue, isProcessingQueue, lastRequestTime, llmPc, providerCalls)

CommitAdapter(L) ==
    /\ requestQueue' = L.queue
    /\ isProcessingQueue' = L.processing
    /\ lastRequestTime' = L.lastTime
    /\ llmPc' = L.workers
    /\ providerCalls' = L.calls

\* The options of a queueRequest call: none, or a retry count.
RequestOptions == {EmptyObj, [retries |-> 1]}

QueueRequest ==
    \E options \in RequestOptions :
        /\ nOps < MaxRequests
        /\ Len(providerCalls) < MaxProviderCalls
        /\ nOps' = nOps + 1
        /\ CommitAdapter(queueRequest(TheAdapter, nOps + 1, options, llmNow))
        /\ last' = [NoCall EXCEPT !.op = "queueRequest", !.arg = options]
        /\ UNCHANGED <<trustVars, now, histVars, memVars, worldVars, llmNow>>

\* The timer of a waiting _processQueue fires, at its time or later.
TimerFires ==
    \E w \in 1..Len(llmPc) :
        /\ llmPc[w].at = "waiting"
        /\ llmNow >= llmPc[w].wake
        /\ CommitAdapter(startCall(TheAdapter, w, llmPc[w].req, llmPc[w].options,
                                   llmPc[w].given, llmNow))
        /\ UNCHANGED <<trustVars, now, nOps, last, histVars, memVars, worldVars, llmNow>>

\* The provider call in flight succeeds or fails.
ProviderResponds ==
    \E w \in 1..Len(llmPc), ok \in BOOLEAN :
        /\ llmPc[w].at = "calling"
        /\ CommitAdapter(providerResponds(TheAdapter, w, ok, llmNow))
        /\ UNCHANGED <<trustVars, now, nOps, last, histVars, memVars, worldVars, llmNow>>

\* The clock advances, up to MaxLLMTime and for as long as a timer is not due.
AdapterTick ==
    /\ \/ llmNow < MaxLLMTime
       \/ \E w \in 1..Len(llmPc) : llmPc[w].at = "waiting" /\ llmNow < llmPc[w].wake
    /\ llmNow' = llmNow + 1
    /\ UNCHANGED <<trustVars, now, nOps, last, histVars, memVars, worldVars,
                   requestQueue, isProcessingQueue, lastRequestTime, llmPc, providerCalls>>

NextAdapter ==
    \/ QueueRequest
    \/ TimerFires
    \/ ProviderResponds
    \/ AdapterTick

SpecAdapter == Init /\ [][NextAdapter]_vars

\* C16: requests are numbered in the order of their queueRequest calls.  The
\* provider calls are made in that order with no request skipped, and at most
\* one provider call is in flight, which is the last one made.
C16_FifoOneInFlight ==
    /\ \A i \in 1..Len(providerCalls) :
          /\ providerCalls[i].end = 0 => i = Len(providerCalls)
          /\ i > 1 => providerCalls[i].req \in
                         {providerCalls[i - 1].req, providerCalls[i - 1].req + 1}
    /\ providerCalls # <<>> => providerCalls[1].req = 1
    /\ Len(llmPc) <= 1

\* C16 witness: two requests were queued while the first one was in flight,
\* and the third one is now in flight after the two before it have ended.
C16_Witness ==
    /\ nOps = 3
    /\ Len(providerCalls) = 3
    /\ \A i \in 1..3 : providerCalls[i].req = i
    /\ providerCalls[1].end < providerCalls[2].start
    /\ providerCalls[3].end = 0
    /\ requestQueue = <<>>


\* C17: every provider call after the first starts at least rateLimitDelay
\* after the provider call before it has finished, retries included.
C17_SpacingBetweenCalls ==
    \A i \in 2..Len(providerCalls) :
        /\ providerCalls[i - 1].end # 0
        /\ providerCalls[i].start >= providerCalls[i - 1].end + rateLimitDelay

\* The retry count the configuration promises for a request: the one given
\* with the call, else the one of DEFAULT_CONFIG.
ConfiguredRetries(given) ==
    IF "retries" \in DOMAIN given THEN given.retries ELSE DEFAULT_CONFIG.retries

AttemptsOf(req) == {i \in 1..Len(providerCalls) : providerCalls[i].req = req}

\* C18: a request whose error was rethrown to the caller was attempted
\* exactly N + 1 times, N being its configured retry count, and no attempt
\* follows a success or a rethrown error of the same request.
C18_RetriesThenRethrow ==
    \A i \in 1..Len(providerCalls) :
        LET call == providerCalls[i]
        IN  /\ call.outcome = "rejected" =>
                Cardinality(AttemptsOf(call.req)) = ConfiguredRetries(call.given) + 1
            /\ call.outcome \in {"resolved", "rejected"} =>
                \A j \in AttemptsOf(call.req) : j <= i


-----------------------------------------------------------------------------
(* The imports of the Memory Store, the History Log and the World State.   *)

\* The forEach of importMemories over the parsed elements; reading memory.id
\* of a null element throws.
RECURSIVE importMemoryEntries(_, _)
importMemoryEntries(M, entries) ==
    IF entries = <<>> THEN [st |-> M, threw |-> FALSE]
    ELSE IF Head(entries) = Null THEN [st |-> M, threw |-> TRUE]
    ELSE
      LET memory == Head(entries)
          agentId == Field(memory, "agentId", "")
          M1 == [M EXCEPT !.mem = Upsert(M.mem, memory)]
          M2 == IF agentId # ""
                THEN [M1 EXCEPT !.am = Put(M1.am, agentId,
                                           Field(M1.am, agentId, {}) \cup {memory.id})]
                ELSE M1
      IN  importMemoryEntries(M2, Tail(entries))

\* The forEach of importMemories over agentMemories: the memoryIds of each
\* registered agent are updated.
RECURSIVE updateMemoryIds(_, _, _)
updateMemoryIds(M, agentIds, t) ==
    IF agentIds = {} THEN M
    ELSE
      LET agentId == CHOOSE id \in agentIds : TRUE
          M1 == IF getAgent(M.S.ag, agentId) # Null
                THEN [M EXCEPT !.S = updateAgent(M.S, agentId,
                                                 [memoryIds |-> M.am[agentId]], t)]
                ELSE M
      IN  updateMemoryIds(M1, agentIds \ {agentId}, t)

\* importMemories: a non-array is refused; both maps are cleared, the
\* elements imported, the agents and the World State updated; an exception
\* on the way is caught and false returned.
importMemories(M, parsed, t) ==
    IF ~parsed.isArray THEN [st |-> M, ret |-> BoolRet(FALSE)]
    ELSE
      LET M1 == [M EXCEPT !.mem = <<>>, !.am = EmptyObj]
          r == importMemoryEntries(M1, parsed.entries)
      IN  IF r.threw THEN [st |-> r.st, ret |-> BoolRet(FALSE)]
          ELSE [st |-> updateGameStateMemories(updateMemoryIds(r.st, DOMAIN r.st.am, t)),
                ret |-> BoolRet(TRUE)]

\* importHistory: a non-array is refused, an array becomes the history as
\* it is.
importHistory(hist, parsed) ==
    IF ~parsed.isArray THEN [history |-> hist, ret |-> BoolRet(FALSE)]
    ELSE [history |-> parsed.entries, ret |-> BoolRet(TRUE)]

\* The World State: the kind of value GameState.state is, and its player,
\* agents and memories when it is an object.
World(kind, gp, ga, gm) == [kind |-> kind, gp |-> gp, ga |-> ga, gm |-> gm]

\* importState: whatever JSON.parse returns becomes the state; false is
\* returned for a text JSON.parse throws on, and only then.
importState(W, parsed) ==
    IF parsed.kind = "invalid" THEN [st |-> W, ret |-> BoolRet(FALSE)]
    ELSE IF parsed.kind = "object"
    THEN [st |-> World("object", parsed.player, parsed.agents, parsed.memories),
          ret |-> BoolRet(TRUE)]
    ELSE [st |-> [W EXCEPT !.kind = parsed.kind], ret |-> BoolRet(TRUE)]

-----------------------------------------------------------------------------
(* The import specification: the five imports, one after the other.  The   *)
(* imports that write to the World State are called while it is an object. *)

ImportedMemory ==
    [id |-> "memory_1", agentId |-> "player", importance |-> MemoryImportance.HIGH,
     accessCount |-> 0, createdAt |-> 1, updatedAt |-> 1]

\* The parsed argument of importMemories.
ParsedMemoryImports ==
    {[isArray |-> FALSE, entries |-> <<>>],
     [isArray |-> TRUE, entries |-> <<ImportedMemory>>],
     [isArray |-> TRUE, entries |-> <<ImportedMemory, Null>>]}

\* The parsed argument of importHistory.
ParsedHistoryImports ==
    {[isArray |-> FALSE, entries |-> <<>>],
     [isArray |-> TRUE, entries |-> <<>>],
     [isArray |-> TRUE,
      entries |-> <<[id |-> "history_1", type |-> HistoryEntryType.SYSTEM,
                     timestamp |-> 1], Null>>]}

\* The parsed argument of importState: a text that is no JSON, the JSON
\* values that are no object, and an exported state.
ParsedStateImports ==
    {[kind |-> k] : k \in {"invalid", "null", "number", "string", "array"}}
    \cup {[kind |-> "object", player |-> ResetPlayer, agents |-> ResetAgents,
           memories |-> <<>>],
          [kind |-> "object", player |-> ResetPlayer,
           agents |-> <<[id |-> "gm_x", type |-> AgentType.NPC]>>, memories |-> <<>>]}

TheWorld == World(gsKind, gsPlayer, gsAgents, gsMemories)

ImportLiveRelationships == gsKind = "object" /\ ImportRelationships

ImportLiveAgents == gsKind = "object" /\ ImportAgents

ImportMemories ==
    \E parsed \in ParsedMemoryImports :
        LET R == importMemories(TheMemStore, parsed, now)
        IN  /\ gsKind = "object"
            /\ nOps < MaxOps
            /\ nOps' = nOps + 1
            /\ memories' = R.st.mem
            /\ agentMemories' = R.st.am
            /\ gsMemories' = R.st.gm
            /\ Commit(R.st.S)
            /\ last' = [NoCall EXCEPT !.op = "importMemories", !.arg = parsed,
                                      !.ret = R.ret]
            /\ UNCHANGED <<now, histVars, memGenerated, worldVars, llmVars>>

ImportHistory ==
    \E parsed \in ParsedHistoryImports :
        LET R == importHistory(history, parsed)
        IN  /\ nOps < MaxOps
            /\ nOps' = nOps + 1
            /\ history' = R.history
            /\ last' = [NoCall EXCEPT !.op = "importHistory", !.arg = parsed,
                                      !.ret = R.ret]
            /\ UNCHANGED <<trustVars, now, histInserted, memVars, worldVars, llmVars>>

ImportState ==
    \E parsed \in ParsedStateImports :
        LET R == importState(TheWorld, parsed)
        IN  /\ nOps < MaxOps
            /\ nOps' = nOps + 1
            /\ gsKind' = R.st.kind
            /\ gsPlayer' = R.st.gp
            /\ gsAgents' = R.st.ga
            /\ gsMemories' = R.st.gm
            /\ last' = [NoCall EXCEPT !.op = "importState", !.arg = parsed,
                                      !.ret = R.ret]
            /\ UNCHANGED <<relationships, agents, now, histVars, memories, agentMemories,
                           memGenerated, heap, gsRef, llmVars>>

NextImport ==
    \/ ImportLiveRelationships
    \/ ImportLiveAgents
    \/ ImportMemories
    \/ ImportHistory
    \/ ImportState

SpecImport == Init /\ [][NextImport]_vars

ImportOps ==
    {"importAgents", "importRelationships", "importMemories", "importHistory", "importState"}

\* C19: an import that returns false leaves the Trust Map, the Agent
\* Registry, the Memory Store, the History Log and the World State as they
\* were before the call.
C19_FailedImportChangesNothing ==
    [][(\E op \in ImportOps : Called(op) /\ last'.ret = BoolRet(FALSE)) =>
          UNCHANGED <<relationships, agents, gsPlayer, gsAgents, history, memories,
                      agentMemories, gsMemories, gsKind>>
    ]_vars

\* The input of the import has the top-level shape the import is for: an
\* object for importState, an array for the others.
RightShape(op, parsed) ==
    IF op = "importState" THEN parsed.kind = "object" ELSE parsed.isArray

\* C20: an import of an input with the wrong top-level shape returns false,
\* and the World State is an object after every import.
C20_WrongShapeRejected ==
    /\ gsKind = "object"
    /\ (last.op \in ImportOps /\ ~RightShape(last.op, last.arg)) =>
          last.ret = BoolRet(FALSE)


-----------------------------------------------------------------------------
(* transition.js: State Transition over objects held by reference.  An     *)
(* object is a cell of the heap; a write to an object changes its cell, a  *)
(* spread copy makes a new cell.                                           *)

\* A returned reference.
Ref(i) == [ref |-> i]

\* A mutant of copyState: newState is the state object itself.
aliasState(H, ref) == [heap |-> H, ref |-> ref]

\* const newState = { ...state }
copyState(H, ref) == [heap |-> Append(H, H[ref]), ref |-> Len(H) + 1]

\* newState.updatedAt = new Date().toISOString()
stampState(C, t) == [C EXCEPT !.heap[C.ref].updatedAt = t]

\* Array.some / Array.find by id.
HasId(list, id) == IndexOfId(list, id) > 0

\* The item is in the player's inventory or among the objects of the
\* current location.
itemFound(H, ref, itemId) ==
    LET state == H[ref]
        player == H[state.player]
        environment == H[state.environment]
        location == Field(environment.locations, environment.currentLocation, Null)
    IN  \/ HasId(player.inventory, itemId)
        \/ location # Null /\ HasId(location.objects, itemId)

\* _processCharacterTargetedAction: the target is looked up; the state is
\* returned as it is, found or not.
processCharacterTargetedAction(H, action, ref) ==
    LET state == H[ref]
        targetCharacter ==
            IF action.targetId = "player" THEN H[state.player]
            ELSE getAgent(H[state.agents].items, action.targetId)
    IN  IF targetCharacter = Null THEN [heap |-> H, ret |-> Ref(ref)]
        ELSE [heap |-> H, ret |-> Ref(ref)]

\* _processEnvironmentTargetedAction
processEnvironmentTargetedAction(H, action, ref) ==
    LET environment == H[H[ref].environment]
        location == Field(environment.locations, environment.currentLocation, Null)
    IN  IF location = Null THEN [heap |-> H, ret |-> Ref(ref)]
        ELSE [heap |-> H, ret |-> Ref(ref)]

\* _processItemTargetedAction
processItemTargetedAction(H, action, ref) ==
    IF ~itemFound(H, ref, action.targetId) THEN [heap |-> H, ret |-> Ref(ref)]
    ELSE [heap |-> H, ret |-> Ref(ref)]

\* _processDialogue
processDialogue(H, action, ref, t) ==
    LET C == stampState(copyState(H, ref), t)
    IN  [heap |-> C.heap, ret |-> Ref(C.ref)]

\* _processPhysicalAction
processPhysicalAction(H, action, ref, t) ==
    LET C == stampState(copyState(H, ref), t)
    IN  CASE action.targetType = TargetType.CHARACTER ->
                processCharacterTargetedAction(C.heap, action, C.ref)
          [] action.targetType = TargetType.ENVIRONMENT ->
                processEnvironmentTargetedAction(C.heap, action, C.ref)
          [] action.targetType = TargetType.ITEM ->
                processItemTargetedAction(C.heap, action, C.ref)
          [] OTHER -> [heap |-> C.heap, ret |-> Ref(C.ref)]

\* _processItemAction: the item is looked up; _processItemOnCharacter,
\* _processItemOnEnvironment, _processItemOnItem and _processItemGeneral
\* return the state they are given.
processItemAction(H, action, ref, t) ==
    LET C == stampState(copyState(H, ref), t)
    IN  IF ~itemFound(C.heap, C.ref, Field(action, "itemId", ""))
        THEN [heap |-> C.heap, ret |-> Ref(C.ref)]
        ELSE [heap |-> C.heap, ret |-> Ref(C.ref)]

\* processAction(action, currentState): a is the place of the action, ref
\* the place of the state.  Reading the type of a null action throws.
processAction(H, a, ref, t) ==
    LET action == H[a]
    IN  IF action = Null THEN [heap |-> H, ret |-> Threw]
        ELSE CASE action.type = ActionType.DIALOGUE -> processDialogue(H, action, ref, t)
               [] action.type = ActionType.PHYSICAL -> processPhysicalAction(H, action, ref, t)
               [] action.type = ActionType.ITEM -> processItemAction(H, action, ref, t)
               [] OTHER -> [heap |-> H, ret |-> Ref(ref)]

\* GameState.updateState(newState): a new state object of the fields of the
\* old one, those of newState over them, and the time.
updateState(H, gs, newState, t) ==
    [heap |-> Append(H, Merge(Merge(H[gs], newState), [updatedAt |-> t])),
     gs |-> Len(H) + 1]

\* applyTransition
applyTransition(H, gs, a, t) ==
    LET R == processAction(H, a, gs, t)
    IN  IF R.ret = Threw THEN [heap |-> R.heap, gs |-> gs, ret |-> Threw]
        ELSE LET U == updateState(R.heap, gs, R.heap[R.ret.ref], t)
             IN  [heap |-> U.heap, gs |-> U.gs, ret |-> R.ret]

\* The for loop of applyTransitions: an exception leaves it.
RECURSIVE processBatch(_, _, _, _)
processBatch(H, as, ref, t) ==
    IF as = <<>> THEN [heap |-> H, ret |-> Ref(ref)]
    ELSE LET R == processAction(H, Head(as), ref, t)
         IN  IF R.ret = Threw THEN R
             ELSE processBatch(R.heap, Tail(as), R.ret.ref, t)

\* applyTransitions
applyTransitions(H, gs, as, t) ==
    LET R == processBatch(H, as, gs, t)
    IN  IF R.ret = Threw THEN [heap |-> R.heap, gs |-> gs, ret |-> Threw]
        ELSE LET U == updateState(R.heap, gs, R.heap[R.ret.ref], t)
             IN  [heap |-> U.heap, gs |-> U.gs, ret |-> R.ret]

-----------------------------------------------------------------------------
(* The State Transition specification: actions processed and applied      *)
(* while the world is edited and the clock advances.                       *)

\* The actions submitted: of each type and target type, with targets and
\* items that are in the world only after an edit, and of no known type.
TransitionActions ==
    {Action(ActionType.DIALOGUE, "player", TargetType.CHARACTER, "gm_x", <<"xie", "xie">>),
     Action(ActionType.PHYSICAL, "player", TargetType.CHARACTER, "gm_x", <<"gong", "ji">>),
     Action(ActionType.PHYSICAL, "player", TargetType.ENVIRONMENT, "", <<"gong", "ji">>),
     Action(ActionType.PHYSICAL, "player", TargetType.ITEM, "key", <<"gei">>),
     Action(ActionType.PHYSICAL, "player", TargetType.NONE, "", <<"gong", "ji">>),
     Merge(Action(ActionType.ITEM, "player", TargetType.NONE, "", <<"gei">>),
           [itemId |-> "key"]),
     Merge(Action(ActionType.ITEM, "player", TargetType.CHARACTER, "gm_x", <<"gei">>),
           [itemId |-> "key"]),
     Action("other", "player", TargetType.NONE, "", <<>>)}

\* The batches of applyTransitions; an element may be null.
TransitionBatches ==
    {<<>>} \cup
    {<<x, y>> : x \in {Null, Action(ActionType.DIALOGUE, "player", TargetType.CHARACTER,
                                    "gm_x", <<"xie", "xie">>)},
                y \in {Null, Action(ActionType.PHYSICAL, "player", TargetType.ITEM,
                                    "key", <<"gei">>)}}

\* The objects an edit of the world puts in the state.
WorldEdits ==
    {[field |-> "agents", object |-> [items |-> <<[id |-> "gm_x", type |-> AgentType.NPC]>>]],
     [field |-> "player", object |-> [id |-> "player", inventory |-> <<[id |-> "key"]>>]]}

\* The places of the state objects.
StateRefs(H) == {i \in 1..Len(H) : "updatedAt" \in DOMAIN H[i]}

\* The places given to the objects of a call, after those of the heap.
Places(H, n) == [i \in 1..n |-> Len(H) + i]

TransitionCall(op, arg, R, gs) ==
    /\ nOps < MaxOps
    /\ nOps' = nOps + 1
    /\ heap' = R.heap
    /\ gsRef' = gs
    /\ last' = [NoCall EXCEPT !.op = op, !.arg = arg, !.ret = R.ret]
    /\ UNCHANGED <<trustVars, now, histVars, memVars, gsKind, llmVars>>

\* gameState.updateState of a new agents array or a new player object.
UpdateState ==
    \E edit \in WorldEdits :
        LET H == Append(heap, edit.object)
            U == updateState(H, gsRef, Put(EmptyObj, edit.field, Len(H)), now)
        IN  TransitionCall("updateState", edit, [heap |-> U.heap, ret |-> Ref(U.gs)], U.gs)

ProcessAction ==
    \E action \in TransitionActions, ref \in StateRefs(heap) :
        LET H == Append(heap, action)
        IN  TransitionCall("processAction", [action |-> action, at |-> Len(H), state |-> ref],
                           processAction(H, Len(H), ref, now), gsRef)

ApplyTransition ==
    \E action \in TransitionActions :
        LET H == Append(heap, action)
            R == applyTransition(H, gsRef, Len(H), now)
        IN  TransitionCall("applyTransition", [action |-> action, at |-> Len(H), state |-> gsRef],
                           R, R.gs)

ApplyTransitions ==
    \E actions \in TransitionBatches :
        LET H == heap \o actions
            R == applyTransitions(H, gsRef, Places(heap, Len(actions)), now)
        IN  TransitionCall("applyTransitions", [actions |-> actions, state |-> gsRef], R, R.gs)

NextTransition ==
    \/ Tick
    \/ UpdateState
    \/ ProcessAction
    \/ ApplyTransition
    \/ ApplyTransitions

SpecTransition == Init /\ [][NextTransition]_vars

\* C21: a processAction call changes no object that existed before the
\* call, the state it is given and the objects the state refers to among
\* them, and it does not change the action.
C21_ProcessActionPure ==
    [][Called("processAction") =>
          /\ \A i \in 1..Len(heap) : heap'[i] = heap[i]
          /\ heap'[last'.arg.at] = last'.arg.action
    ]_vars

\* C21 witness: a processAction of an action on a character of the state
\* has returned a new state object whose time differs from that of the
\* state it was given.
C21_Witness ==
    /\ last.op = "processAction"
    /\ last.arg.action.type = ActionType.PHYSICAL
    /\ last.arg.action.targetType = TargetType.CHARACTER
    /\ HasId(heap[heap[last.arg.state].agents].items, last.arg.action.targetId)
    /\ last.ret.ref # last.arg.state
    /\ heap[last.ret.ref].updatedAt # heap[last.arg.state].updatedAt


\* The action is of type action or item and names a character or an item
\* that is not in the state at ref.
Unresolved(H, action, ref) ==
    \/ /\ action.type = ActionType.PHYSICAL
       /\ action.targetType = TargetType.CHARACTER
       /\ action.targetId # "player"
       /\ ~HasId(H[H[ref].agents].items, action.targetId)
    \/ /\ action.type = ActionType.PHYSICAL
       /\ action.targetType = TargetType.ITEM
       /\ ~itemFound(H, ref, action.targetId)
    \/ /\ action.type = ActionType.ITEM
       /\ ~itemFound(H, ref, action.itemId)

\* C22: a processAction call of an action whose target or item is not in
\* the state does not throw and returns a state equal to the state it was
\* given in every field.
C22_UnresolvedTargetNoChange ==
    [][(Called("processAction")
          /\ Unresolved(heap, last'.arg.action, last'.arg.state)) =>
          /\ last'.ret # Threw
          /\ heap'[last'.ret.ref] = heap[last'.arg.state]
    ]_vars

\* C23: an applyTransitions call with an element that fails still returns
\* a state and gives the World State a new state object of the time of the
\* call.
C23_BatchIsolatesFailures ==
    [][(Called("applyTransitions")
          /\ \E i \in 1..Len(last'.arg.actions) : last'.arg.actions[i] = Null) =>
          /\ last'.ret # Threw
          /\ gsRef' # gsRef
          /\ heap'[gsRef'].updatedAt = now
    ]_vars


-----------------------------------------------------------------------------
(* Operations given an id that may be unknown: createAgentCard of the      *)
(* registry, createAgentMemory of the Memory Store.                        *)

CardKeys ==
    {"id", "name", "type", "description", "background", "appearance", "personality",
     "goals", "dialogueStyle"}

\* createAgentCard: the card fields of the agent; an unknown agent throws.
createAgentCard(ag, agentId) ==
    LET agent == getAgent(ag, agentId)
    IN  IF agent = Null THEN Threw
        ELSE [k \in (DOMAIN agent) \cap CardKeys |-> agent[k]]

\* _associateMemoryWithAgent
associateMemoryWithAgent(M, memoryId, agentId, t) ==
    LET ids == Field(M.am, agentId, {}) \cup {memoryId}
        M1 == [M EXCEPT !.am = Put(M.am, agentId, ids)]
    IN  IF getAgent(M1.S.ag, agentId) # Null
        THEN [M1 EXCEPT !.S = updateAgent(M1.S, agentId, [memoryIds |-> ids], t)]
        ELSE M1

\* createAgentMemory: an unknown agent throws; otherwise a memory of the
\* agent is added under a fresh id and associated with the agent.
createAgentMemory(M, agentId, options, n, t) ==
    IF getAgent(M.S.ag, agentId) = Null THEN [st |-> M, ret |-> Threw]
    ELSE
      LET memory == [id |-> generateMemoryId(n), agentId |-> agentId,
                     importance |-> Field(options, "importance", MemoryImportance.MEDIUM),
                     accessCount |-> 0, createdAt |-> t, updatedAt |-> t]
          R == addMemory(M, memory, n, t, t)
      IN  [st |-> associateMemoryWithAgent(R.st, R.ret.id, agentId, t), ret |-> R.ret]

-----------------------------------------------------------------------------
(* The lookup specification: operations called with ids that are known    *)
(* and with ids that are not.                                              *)

CreateAgentCard ==
    \E agentId \in AgentIds :
        Call("createAgentCard", agentId, "", Null,
             [st |-> TrustStore, ret |-> createAgentCard(agents, agentId)])

CreateAgentMemory ==
    \E agentId \in AgentIds, options \in {EmptyObj, [importance |-> MemoryImportance.CRITICAL]} :
        LET R == createAgentMemory(TheMemStore, agentId, options, memGenerated + 1, now)
        IN  MemoryCall("createAgentMemory", agentId, options, R, now,
                       IF R.ret = Threw THEN 0 ELSE 1)

NextLookup ==
    \/ InitializeRegistry
    \/ RegisterAgent
    \/ UpdateAgent
    \/ RemoveAgent
    \/ CreateAgentCard
    \/ CreateAgentMemory
    \/ DeleteMemory

SpecLookup == Init /\ [][NextLookup]_vars

\* The step is a call of an operation on an agent that is not registered or
\* on a memory that is not stored.
UnknownId ==
    \/ /\ \E op \in {"updateAgent", "removeAgent", "createAgentCard", "createAgentMemory"} :
             Called(op)
       /\ ~Registered(last'.a)
    \/ /\ Called("deleteMemory")
       /\ last'.a \notin StoredIds(memories)

\* C24: an operation given an unknown agent or memory id returns null or
\* false, without throwing, and leaves the registry, the Trust Map, the
\* Memory Store and the World State as they were.
C24_NotFoundNeverThrows ==
    [][UnknownId =>
          /\ last'.ret \in {Null, BoolRet(FALSE)}
          /\ UNCHANGED <<trustVars, memories, agentMemories, gsMemories>>
    ]_vars


-----------------------------------------------------------------------------
(* The decision specification: _generateDecisionResponse on agents and     *)
(* relationships of chosen trait and factor values.                        *)

\* _generateDecisionResponse
generateDecisionResponse(agent, context) ==
    [type |-> ResponseType.DECISION, content |-> <<ResponseType.DECISION>>,
     decisionType |-> decisionType(agent, context),
     emotion |-> decisionEmotion(agent, context),
     emotionIntensity |-> calculateEmotionIntensity(agent)]

\* The values of the traits, and the trust and respect of the relationship.
DecisionTraits == {0, 8, 50, 72, 100}
DecisionRelationships ==
    {Null, [trust |-> 50, respect |-> 50], [trust |-> 100, respect |-> 100],
     [trust |-> 10, respect |-> 20]}

GenerateDecisionResponse ==
    \E a \in DecisionTraits, e \in DecisionTraits, n \in DecisionTraits,
       relationship \in DecisionRelationships :
        LET agent == [id |-> "gm_x", type |-> AgentType.NPC, emotionIntensity |-> 50,
                      personality |-> [openness |-> 50, conscientiousness |-> 50,
                                       extraversion |-> e, agreeableness |-> a,
                                       neuroticism |-> n]]
            context == [agent |-> agent, relationship |-> relationship]
        IN  /\ nOps = 0
            /\ nOps' = 1
            /\ last' = [op |-> "generateDecisionResponse", a |-> agent.id, b |-> "",
                        arg |-> context, ret |-> generateDecisionResponse(agent, context)]
            /\ UNCHANGED <<trustVars, now, histVars, memVars, worldVars, llmVars>>

NextDecision == GenerateDecisionResponse

SpecDecision == Init /\ [][NextDecision]_vars

\* Ten times the cooperation score of the formula, a whole number.
ScoreTenths(p, r) ==
    5 * (p.agreeableness - 50) + 3 * (p.extraversion - 50) + 2 * (50 - p.neuroticism)
    + (IF r = Null THEN 0 ELSE 6 * (r.trust - 50) + 4 * (r.respect - 50))

\* C25: the decision type of a decision response is cooperate when the
\* score of the formula is above 30, help when above 10, neutral when
\* above -10, avoid when above -30, compete otherwise.
C25_DecisionByScore ==
    last.op = "generateDecisionResponse" =>
        LET score == ScoreTenths(last.arg.agent.personality, last.arg.relationship)
        IN  last.ret.decisionType =
                IF score > 300 THEN DecisionType.COOPERATE
                ELSE IF score > 100 THEN DecisionType.HELP
                ELSE IF score > -100 THEN DecisionType.NEUTRAL
                ELSE IF score > -300 THEN DecisionType.AVOID
                ELSE DecisionType.COMPETE


-----------------------------------------------------------------------------
(* action_space.js: parseActionInput.  A text is a sequence of characters; *)
(* "q" is the double quote, "sp" a space, "nl" a line feed, "lb" and "rb"  *)
(* the brackets U+3010 and U+3011, "lc" and "rc" the brackets U+300C and   *)
(* U+300D.                                                                 *)

\* \s, and the characters the dot does not match.
WhiteSpace == {"sp", "nl"}
LineTerminators == {"nl"}

AllSpace(text, from) == \A k \in from..Len(text) : text[k] \in WhiteSpace

\* text.match(/^\s*[open](.+?)[close]\s*$/), or with [close]? when the
\* closing character is optional: the captured group, null without a match.
matchMarked(text, open, close, closeOptional) ==
    LET starts == {k \in 1..Len(text) : text[k] \notin WhiteSpace}
    IN  IF starts = {} THEN Null
        ELSE
          LET i == CHOOSE k \in starts : \A m \in starts : k <= m
              ends == {j \in (i + 1)..Len(text) :
                         /\ \A k \in (i + 1)..j : text[k] \notin LineTerminators
                         /\ \/ j < Len(text) /\ text[j + 1] \in close
                                             /\ AllSpace(text, j + 2)
                            \/ closeOptional /\ AllSpace(text, j + 1)}
          IN  IF text[i] \notin open \/ ends = {} THEN Null
              ELSE LET j == CHOOSE k \in ends : \A m \in ends : k <= m
                   IN  [group |-> SubSeq(text, i + 1, j)]

\* parseActionInput
parseActionInput(input) ==
    LET actionMatch == matchMarked(input, {"[", "lb"}, {"]", "rb"}, FALSE)
        itemMatch == matchMarked(input, {"{", "lc"}, {"}", "rc"}, FALSE)
        dialogueMatch == matchMarked(input, {"q"}, {"q"}, TRUE)
    IN  IF actionMatch # Null THEN [type |-> ActionType.PHYSICAL, content |-> actionMatch.group]
        ELSE IF itemMatch # Null THEN [type |-> ActionType.ITEM, content |-> itemMatch.group]
        ELSE IF dialogueMatch # Null
        THEN [type |-> ActionType.DIALOGUE, content |-> dialogueMatch.group]
        ELSE [type |-> ActionType.DIALOGUE, content |-> input]

-----------------------------------------------------------------------------
(* The parse specification: parseActionInput on every short text.          *)

ParseChars == {"[", "]", "{", "}", "q", "sp", "nl", "a"}

ParseInputs == UNION {[1..n -> ParseChars] : n \in 0..MaxInputLen}

ParseActionInput ==
    \E input \in ParseInputs :
        /\ nOps = 0
        /\ nOps' = 1
        /\ last' = [NoCall EXCEPT !.op = "parseActionInput", !.arg = input,
                                  !.ret = parseActionInput(input)]
        /\ UNCHANGED <<trustVars, now, histVars, memVars, worldVars, llmVars>>

NextParse == ParseActionInput

SpecParse == Init /\ [][NextParse]_vars

\* The text without the white space around it.
Trimmed(text) ==
    LET inked == {k \in 1..Len(text) : text[k] \notin WhiteSpace}
    IN  IF inked = {} THEN <<>>
        ELSE SubSeq(text, CHOOSE k \in inked : \A m \in inked : k <= m,
                          CHOOSE k \in inked : \A m \in inked : k >= m)

\* The whole text is an opening character, one or more characters, and a
\* closing character.
Enclosed(text, open, close) ==
    LET t == Trimmed(text)
    IN  Len(t) >= 3 /\ t[1] \in open /\ t[Len(t)] \in close

Inside(text) == LET t == Trimmed(text) IN SubSeq(t, 2, Len(t) - 1)

\* C26: a text enclosed in brackets is of type action with the brackets
\* stripped; otherwise a text enclosed in braces is of type item with the
\* braces stripped; otherwise the type is dialogue, the content being the
\* text without its surrounding quotes when it has them and the text as it
\* is when it has not; no text is enclosed both in brackets and in braces.
C26_ParseByFirstPattern ==
    last.op = "parseActionInput" =>
        LET input == last.arg
            bracket == Enclosed(input, {"[", "lb"}, {"]", "rb"})
            brace == Enclosed(input, {"{", "lc"}, {"}", "rc"})
            quoted == Enclosed(input, {"q"}, {"q"})
        IN  /\ ~(bracket /\ brace)
            /\ last.ret =
                  IF bracket THEN [type |-> ActionType.PHYSICAL, content |-> Inside(input)]
                  ELSE IF brace THEN [type |-> ActionType.ITEM, content |-> Inside(input)]
                  ELSE IF quoted THEN [type |-> ActionType.DIALOGUE, content |-> Inside(input)]
                  ELSE [type |-> ActionType.DIALOGUE, content |-> input]


-----------------------------------------------------------------------------
(* trust_map.js: analyzeRelationship.                                       *)

\* The status labels of analyzeRelationship, in English.
RelationshipStatus ==
    [UNKNOWN |-> "unknown", INTIMATE |-> "intimate", TRUSTING |-> "trusting",
     HOSTILE |-> "hostile", GUARDED |-> "guarded", FRIENDLY |-> "friendly",
     NEUTRAL |-> "neutral"]

\* factor >= value and factor <= value; a comparison with a factor that is
\* not there is false.
AtLeast(factors, factor, value) == factor \in DOMAIN factors /\ factors[factor] >= value
AtMost(factors, factor, value) == factor \in DOMAIN factors /\ factors[factor] <= value

\* A mutant of statusOf: the guarded rule is tried before the hostile rule.
statusOfGuardedFirst(factors) ==
    IF AtLeast(factors, "trust", 80) /\ AtLeast(factors, "intimacy", 80)
    THEN RelationshipStatus.INTIMATE
    ELSE IF AtLeast(factors, "trust", 70) THEN RelationshipStatus.TRUSTING
    ELSE IF AtMost(factors, "trust", 40) THEN RelationshipStatus.GUARDED
    ELSE IF AtMost(factors, "trust", 20) /\ AtMost(factors, "respect", 30)
    THEN RelationshipStatus.HOSTILE
    ELSE IF AtLeast(factors, "intimacy", 70) /\ AtLeast(factors, "respect", 60)
    THEN RelationshipStatus.FRIENDLY
    ELSE RelationshipStatus.NEUTRAL

\* The if chain of analyzeRelationship.
statusOf(factors) ==
    IF AtLeast(factors, "trust", 80) /\ AtLeast(factors, "intimacy", 80)
    THEN RelationshipStatus.INTIMATE
    ELSE IF AtLeast(factors, "trust", 70) THEN RelationshipStatus.TRUSTING
    ELSE IF AtMost(factors, "trust", 20) /\ AtMost(factors, "respect", 30)
    THEN RelationshipStatus.HOSTILE
    ELSE IF AtMost(factors, "trust", 40) THEN RelationshipStatus.GUARDED
    ELSE IF AtLeast(factors, "intimacy", 70) /\ AtLeast(factors, "respect", 60)
    THEN RelationshipStatus.FRIENDLY
    ELSE RelationshipStatus.NEUTRAL

\* analyzeRelationship
analyzeRelationship(rel, agentId1, agentId2) ==
    LET relationship == getRelationship(rel, agentId1, agentId2)
    IN  IF relationship = Null THEN [status |-> RelationshipStatus.UNKNOWN]
        ELSE [status |-> statusOf(relationship.factors), type |-> relationship.type,
              factors |-> relationship.factors]

-----------------------------------------------------------------------------
(* The analysis specification: a relationship of chosen factors is set,    *)
(* its trust raised, and the relationship analysed.                        *)

AnalysedTrust == {10, 12, 20, 21, 40, 41, 69, 70, 79, 80}
AnalysedIntimacy == {69, 70, 79, 80}
AnalysedRespect == {30, 31, 59, 60}

SetAnalysedRelationship ==
    \E trust \in AnalysedTrust, intimacy \in AnalysedIntimacy, respect \in AnalysedRespect :
        LET data == [factors |-> [trust |-> trust, intimacy |-> intimacy,
                                  respect |-> respect, loyalty |-> 0, dependency |-> 0]]
        IN  /\ nOps = 0
            /\ Call("setRelationship", "player", "gm", data,
                    setRelationship(TrustStore, "player", "gm", data, now))

RaiseTrust ==
    /\ last.op = "setRelationship"
    /\ Call("adjustRelationshipFactor", "player", "gm", <<"trust", 2>>,
            adjustRelationshipFactor(TrustStore, "player", "gm", "trust", 2, now))

AnalyzeRelationship ==
    \E p \in {<<"gm", "player">>, <<"gm", "gm_x">>} :
        /\ last.op # "analyzeRelationship"
        /\ Call("analyzeRelationship", p[1], p[2], Null,
                [st |-> TrustStore, ret |-> analyzeRelationship(relationships, p[1], p[2])])

NextAnalysis ==
    \/ SetAnalysedRelationship
    \/ RaiseTrust
    \/ AnalyzeRelationship

SpecAnalysis == Init /\ [][NextAnalysis]_vars

\* The label of the decision tree of the claim.
TreeLabel(trust, intimacy, respect) ==
    CASE trust >= 80 /\ intimacy >= 80 -> "intimate"
      [] ~(trust >= 80 /\ intimacy >= 80) /\ trust >= 70 -> "trusting"
      [] trust < 70 /\ trust <= 20 /\ respect <= 30 -> "hostile"
      [] trust < 70 /\ ~(trust <= 20 /\ respect <= 30) /\ trust <= 40 -> "guarded"
      [] trust < 70 /\ trust > 40 /\ intimacy >= 70 /\ respect >= 60 -> "friendly"
      [] OTHER -> "neutral"

\* C27: an analyzeRelationship call of an existing relationship changes
\* nothing and returns the label of the decision tree for the trust,
\* intimacy and respect of the relationship; and when a trust of 10 is
\* raised to 12 with a respect above 30, the label is guarded before and
\* after.
C27_AnalysisTree ==
    [][/\ (Called("analyzeRelationship") /\ last'.a = "gm" /\ last'.b = "player"
              /\ getRelationship(relationships, "gm", "player") # Null) =>
             LET f == getRelationship(relationships, "gm", "player").factors
             IN  /\ last'.ret.status = TreeLabel(f.trust, f.intimacy, f.respect)
                 /\ UNCHANGED <<trustVars, histVars, memVars, worldVars>>
       /\ (Called("adjustRelationshipFactor")
              /\ getRelationship(relationships, "gm", "player").factors.trust = 10
              /\ getRelationship(relationships, "gm", "player").factors.respect > 30) =>
             /\ getRelationship(relationships', "gm", "player").factors.trust = 12
             /\ analyzeRelationship(relationships, "gm", "player").status = "guarded"
             /\ analyzeRelationship(relationships', "gm", "player").status = "guarded"
    ]_vars

\* C27 witness: a relationship of trust 10 and respect 31 was raised to
\* trust 12 and then analysed as guarded.
C27_Witness ==
    /\ last.op = "analyzeRelationship"
    /\ last.ret.status = "guarded"
    /\ nOps = 3
    /\ getRelationship(relationships, "gm", "player").factors.trust = 12
    /\ getRelationship(relationships, "gm", "player").factors.respect = 31


-----------------------------------------------------------------------------
(* GameInterface.handleActionSubmit: what the interface does with a        *)
(* submitted action.                                                       *)

\* The forEach of handleActionSubmit: an npc_response entry for each
\* response of type dialogue.
RECURSIVE recordResponses(_, _, _)
recordResponses(P, responses, t) ==
    IF responses = <<>> THEN P
    ELSE
      LET response == Head(responses).response
          logged == addNPCResponseEntry(P.hist, Head(responses).agentId, response.content,
                        [emotion |-> Field(response, "emotion", ""),
                         intensity |-> Field(response, "emotionIntensity", 0)],
                        Len(P.inserted) + 1, t)
      IN  IF response.type = ResponseType.DIALOGUE
          THEN recordResponses([P EXCEPT !.hist = logged.history,
                                         !.inserted = Append(P.inserted, logged.ret)],
                               Tail(responses), t)
          ELSE recordResponses(P, Tail(responses), t)

\* The stores after an entry was added to the history.
withEntry(P, added) ==
    [P EXCEPT !.hist = added.history, !.inserted = Append(P.inserted, added.ret)]

\* handleActionSubmit after the scene responses R: their entries.  T is what
\* applyTransition left.
submitAnswered(R, T, t) ==
    [st |-> recordResponses(R.st, R.responses, t), heap |-> T.heap, gs |-> T.gs,
     responses |-> R.responses]

\* handleActionSubmit after the action entry: an exception of the
\* transition T ends it, else the scene responses are generated.
submitEntered(P, T, action, randoms, t) ==
    IF T.ret = Threw
    THEN [st |-> P, heap |-> T.heap, gs |-> T.gs, responses |-> <<>>]
    ELSE submitAnswered(generateSceneResponses(P, action, randoms, t), T, t)

\* handleActionSubmit(action): the action entry, the transition, the scene
\* responses and their entries.  H is the heap, with the action at its end,
\* and gs the place of the game state.
handleActionSubmit(P, H, gs, action, randoms, t) ==
    submitEntered(withEntry(P, addActionEntry(P.hist, action, Len(P.inserted) + 1, t)),
                  applyTransition(H, gs, Len(H), t), action, randoms, t)

-----------------------------------------------------------------------------
(* The submission specification: agents registered, a relationship set,    *)
(* and actions submitted in the interface.                                 *)

SubmitCall(arg, R) ==
    /\ nOps < MaxOps
    /\ nOps' = nOps + 1
    /\ Commit(R.st.S)
    /\ history' = R.st.hist
    /\ histInserted' = R.st.inserted
    /\ heap' = R.heap
    /\ gsRef' = R.gs
    /\ last' = [op |-> "handleActionSubmit", a |-> "", b |-> "", arg |-> arg,
                ret |-> [responses |-> R.responses]]
    /\ UNCHANGED <<now, memVars, gsKind, llmVars>>

HandleActionSubmit ==
    \E action \in SceneActions, randoms \in SceneRandoms :
        SubmitCall([action |-> action, randoms |-> randoms],
                   handleActionSubmit(PolicyStore(TrustStore, history, histInserted),
                                      Append(heap, action), gsRef, action, randoms, now))

NextSubmit ==
    \/ InitializeRegistry
    \/ SceneRegisterAgent
    \/ SceneSetRelationship
    \/ HandleActionSubmit

SpecSubmit == Init /\ [][NextSubmit]_vars

\* C28: when an action is submitted, the Trust Map scores it before the
\* reactions are generated: the relationships after the submission are those
\* processActionEffect leaves, and the reactions are those generated from
\* the relationships so updated.
C28_EffectBeforeReactions ==
    [][Called("handleActionSubmit") =>
          /\ relationships' = processActionEffect(TrustStore, last'.arg.action, now).st.rel
          /\ last'.ret.responses =
                 generateSceneResponses(
                     withEntry(PolicyStore(processActionEffect(TrustStore, last'.arg.action,
                                                               now).st,
                                           history, histInserted),
                               addActionEntry(history, last'.arg.action,
                                              Len(histInserted) + 1, now)),
                     last'.arg.action, last'.arg.randoms, now).responses
    ]_vars


-----------------------------------------------------------------------------
(* The response specification: agents registered, a relationship set, the  *)
(* clock advancing, and single responses generated.                        *)

\* The agents registered: those of the scene, a gm that is angry, and an NPC
\* of high neuroticism.
RespondAgents ==
    SceneAgents \cup
    {Merge(DEFAULT_AGENT_TEMPLATE, [id |-> "gm", type |-> AgentType.GM, emotionIntensity |-> 90,
                                    currentEmotion |-> EmotionalState.ANGRY]),
     Merge(DEFAULT_AGENT_TEMPLATE,
           [id |-> "gm_x",
            personality |-> [openness |-> 50, conscientiousness |-> 50, extraversion |-> 50,
                             agreeableness |-> 50, neuroticism |-> 80]])}

\* The actions answered: those of the scene and an attack on an NPC.
RespondActions ==
    SceneActions \cup
    {Action(ActionType.PHYSICAL, "player", TargetType.CHARACTER, "gm_x", <<"gong", "ji">>)}

\* Math.random() of the call.
RespondRandoms == {700, 701}

RespondRegisterAgent ==
    \E agent \in RespondAgents :
        Call("registerAgent", agent.id, "", agent,
             [st |-> registerAgent(TrustStore, agent, now), ret |-> Null])

\* What generateResponse leaves and returns, as a batch of one response.
oneResponse(agentId, r) ==
    [st |-> r.st, responses |-> <<[agentId |-> agentId, response |-> r.response]>>]

GenerateResponse ==
    \E agentId \in {"gm_x", "x_player", "gm"}, action \in RespondActions,
       random \in RespondRandoms :
        PolicyCall("generateResponse", [agentId |-> agentId, action |-> action],
                   oneResponse(agentId,
                       generateResponse(PolicyStore(TrustStore, history, histInserted),
                                        agentId, action, random, now)))

NextRespond ==
    \/ InitializeRegistry
    \/ RespondRegisterAgent
    \/ SceneSetRelationship
    \/ Tick
    \/ GenerateResponse

SpecRespond == Init /\ [][NextRespond]_vars

\* The response of the generateResponse call that was the last step.
LastResponse == last.ret.responses[1].response

\* The response has an emotion and it is not that of the agent record.
NewEmotion(agent, response) ==
    /\ agent # Null
    /\ "emotion" \in DOMAIN response
    /\ response.emotion # ""
    /\ response.emotion # Field(agent, "currentEmotion", "")

\* C29: a generateResponse call changes the agent records exactly when the
\* response has an emotion that is not the current emotion of the agent,
\* and then the agent has the emotion and the intensity of the response and
\* every other agent is as it was.
C29_EmotionUpdatedWhenDifferent ==
    [][Called("generateResponse") =>
          IF NewEmotion(getAgent(agents, last'.arg.agentId), LastResponse')
          THEN /\ agents' # agents
               /\ getAgent(agents', last'.arg.agentId).currentEmotion = LastResponse'.emotion
               /\ getAgent(agents', last'.arg.agentId).emotionIntensity =
                      LastResponse'.emotionIntensity
               /\ \A i \in 1..Len(agents) :
                      agents[i].id # last'.arg.agentId => agents'[i] = agents[i]
          ELSE agents' = agents
    ]_vars

\* C29 witness: a generateResponse call of gm_x returned a happy response
\* of intensity 65 and the agent, registered neutral at 50, is happy at 65.
C29_Witness ==
    /\ last.op = "generateResponse"
    /\ last.arg.agentId = "gm_x"
    /\ "emotion" \in DOMAIN LastResponse
    /\ LastResponse.emotion = EmotionalState.HAPPY
    /\ LastResponse.emotionIntensity = 65
    /\ getAgent(agents, "gm_x").currentEmotion = EmotionalState.HAPPY
    /\ getAgent(agents, "gm_x").emotionIntensity = 65


\* The agent ids of the responses of type dialogue, in order.
RECURSIVE dialogueAgents(_)
dialogueAgents(responses) ==
    IF responses = <<>> THEN <<>>
    ELSE (IF Head(responses).response.type = ResponseType.DIALOGUE
          THEN <<Head(responses).agentId>> ELSE <<>>)
         \o dialogueAgents(Tail(responses))

\* The entries a step added to the history, in order.
AddedEntries == SubSeq(histInserted', Len(histInserted) + 1, Len(histInserted'))

\* C30: a submitted action adds to the history its action entry and then
\* one npc_response entry for each response of type dialogue, in the order
\* of the responses, and nothing else.
C30_ResponsesRecordedOnce ==
    [][Called("handleActionSubmit") =>
          /\ Len(AddedEntries) = 1 + Len(dialogueAgents(last'.ret.responses))
          /\ AddedEntries[1].type = HistoryEntryType.ACTION_ENTRY
          /\ \A i \in 1..Len(dialogueAgents(last'.ret.responses)) :
                 /\ AddedEntries[i + 1].type = HistoryEntryType.NPC_RESPONSE
                 /\ AddedEntries[i + 1].npcId = dialogueAgents(last'.ret.responses)[i]
    ]_vars


-----------------------------------------------------------------------------
(* memory_manager.js: getMemory and getRelevantMemories.                   *)

\* memory.lastAccessed = now; memory.accessCount += 1.  The sum of an
\* accessCount that is not there and 1 is NaN, written as accessCountNaN.
touch(memory, t) ==
    IF "accessCount" \in DOMAIN memory
    THEN Merge(memory, [lastAccessed |-> t, accessCount |-> memory.accessCount + 1])
    ELSE Merge(memory, [lastAccessed |-> t, accessCountNaN |-> TRUE])

\* The memories of a list with those of the ids touched: the objects are
\* the same in the store and in the World State.
touchAll(mem, ids, t) ==
    [i \in 1..Len(mem) |-> IF mem[i].id \in ids THEN touch(mem[i], t) ELSE mem[i]]

\* A mutant of getMemory: every stored memory is touched.
getMemoryTouchingAll(M, memoryId, t) ==
    IF IndexOfId(M.mem, memoryId) = 0 THEN [st |-> M, ret |-> Null]
    ELSE [st |-> [M EXCEPT !.mem = touchAll(M.mem, {m.id : m \in {M.mem[i] : i \in 1..Len(M.mem)}}, t),
                           !.gm = touchAll(M.gm, {m.id : m \in {M.mem[i] : i \in 1..Len(M.mem)}}, t)],
          ret |-> touch(M.mem[IndexOfId(M.mem, memoryId)], t)]

\* getMemory
getMemory(M, memoryId, t) ==
    IF IndexOfId(M.mem, memoryId) = 0 THEN [st |-> M, ret |-> Null]
    ELSE [st |-> [M EXCEPT !.mem = touchAll(M.mem, {memoryId}, t),
                           !.gm = touchAll(M.gm, {memoryId}, t)],
          ret |-> touch(M.mem[IndexOfId(M.mem, memoryId)], t)]

\* _calculateContextRelevance without its recency term, doubled: importance,
\* agent, content and type matches, access frequency.  It is NaN when the
\* accessCount is not a number.
relevanceIsNaN(memory) == "accessCount" \notin DOMAIN memory

contextRelevance(memory, context) ==
    4 * memory.importance
    + (IF Field(context, "agentId", "") # ""
          /\ Field(memory, "agentId", "") = context.agentId THEN 10 ELSE 0)
    + (IF Field(context, "query", <<>>) # <<>> /\ Includes(memory.content, context.query)
       THEN 20 ELSE 0)
    + (IF Field(context, "type", "") # "" /\ Field(memory, "type", "") = context.type
       THEN 6 ELSE 0)
    + Min(10, memory.accessCount)

\* b.score - a.score < 0, for scores that are numbers: the recency term
\* Math.max(0, 5 - days * decayRate) is below 5 by less than a millionth for
\* memories created within the clock's range and decides between equal sums.
scoredBefore(a, b, context) ==
    \/ contextRelevance(a, context) > contextRelevance(b, context)
    \/ /\ contextRelevance(a, context) = contextRelevance(b, context)
       /\ a.createdAt > b.createdAt

\* The orders Array.prototype.sort may leave the scored memories in, as
\* sequences of indices: the stable descending order when every score is a
\* number, any order when the comparator returns NaN for some pair.
Orders(n) == {p \in [1..n -> 1..n] : \A i, j \in 1..n : p[i] = p[j] => i = j}

sortedOrders(mem, context) ==
    IF \E i \in 1..Len(mem) : relevanceIsNaN(mem[i])
    THEN Orders(Len(mem))
    ELSE {p \in Orders(Len(mem)) :
             \A i, j \in 1..Len(mem) :
                 i < j => \/ scoredBefore(mem[p[i]], mem[p[j]], context)
                          \/ (~scoredBefore(mem[p[j]], mem[p[i]], context) /\ p[i] < p[j])}

\* Array.prototype.slice(0, limit) of a sequence; a negative limit counts
\* from the end.
sliceTo(seq, limit) ==
    IF limit >= 0 THEN SubSeq(seq, 1, Min(limit, Len(seq)))
    ELSE SubSeq(seq, 1, Max(0, Len(seq) + limit))

\* getRelevantMemories(context, limit) when the sort leaves the memories in
\* this order.
getRelevantMemories(M, context, limit, order, t) ==
    [st |-> [M EXCEPT
                !.mem = touchAll(M.mem, {M.mem[i].id : i \in
                            {order[k] : k \in DOMAIN sliceTo(order, limit)}}, t),
                !.gm = touchAll(M.gm, {M.mem[i].id : i \in
                            {order[k] : k \in DOMAIN sliceTo(order, limit)}}, t)],
     ret |-> [k \in DOMAIN sliceTo(order, limit) |-> touch(M.mem[order[k]], t)]]

-----------------------------------------------------------------------------
(* The recall specification: memories added and read while the clock       *)
(* advances.                                                               *)

\* The memories added, as createAgentMemory and createMemoryFromHistory
\* build them: never read, of an agent or of none.
RecalledMemories ==
    {[importance |-> MemoryImportance.LOW, accessCount |-> 0, content |-> <<"a">>],
     [importance |-> MemoryImportance.HIGH, accessCount |-> 0, content |-> <<"b">>,
      agentId |-> "gm_x"],
     [importance |-> MemoryImportance.MEDIUM, accessCount |-> 0, content |-> <<"a", "b">>]}

RecallContexts == {EmptyObj, [agentId |-> "gm_x"], [query |-> <<"a">>]}

RecallLimits == {0, 1, 2}

AddRecalledMemory ==
    \E memory \in RecalledMemories :
        MemoryCall("addMemory", "", memory,
                   addMemory(TheMemStore, memory, memGenerated + 1, now, now), now, 1)

GetMemory ==
    \E id \in {memories[i].id : i \in 1..Len(memories)} \cup {"memory_0"} :
        MemoryCall("getMemory", id, Null, getMemory(TheMemStore, id, now), now, 0)

GetRelevantMemories ==
    \E context \in RecallContexts, limit \in RecallLimits :
        \E order \in sortedOrders(memories, context) :
            MemoryCall("getRelevantMemories", "", [context |-> context, limit |-> limit],
                       getRelevantMemories(TheMemStore, context, limit, order, now), now, 0)

NextRecall ==
    \/ AddRecalledMemory
    \/ GetMemory
    \/ GetRelevantMemories
    \/ MemoryTick

SpecRecall == Init /\ [][NextRecall]_vars

\* The accessCount of the memory of this id is one more than it was.
CountedOnce(before, after, id) ==
    /\ IndexOfId(after, id) # 0
    /\ "accessCount" \in DOMAIN after[IndexOfId(after, id)]
    /\ after[IndexOfId(after, id)].accessCount =
           Field(before[IndexOfId(before, id)], "accessCount", 0) + 1

\* The ids of the memories a call returned.
ReturnedIds(ret) == {ret[k].id : k \in DOMAIN ret}

C32_CreatedAtPreserved ==
    [][(/\ Called("setRelationship")
        /\ last'.a # last'.b
        /\ getRelationship(relationships, last'.a, last'.b) # Null) =>
          /\ getRelationship(relationships', last'.a, last'.b).createdAt =
                 getRelationship(relationships, last'.a, last'.b).createdAt
          /\ getRelationship(relationships', last'.a, last'.b).updatedAt = now
    ]_vars


\* Math.random() in thousandths: the values of a uniform draw, each as
\* likely as the others.
UniformDraws == 0..999

\* The draws for which the response to this context is of this type.
DrawsGiving(context, type) ==
    {random \in UniformDraws : determineResponseType(context, random) = type}

\* C33: when no earlier rule applies and there is a relationship of trust
\* below 20, the response type is REJECTION for 70% of the draws and
\* DIALOGUE for the other 30%, to a thousandth.
C33_RejectionSeventyPercent ==
    (/\ last.op = "determineResponseType"
     /\ ~DirectDialogue(last.arg.context)
     /\ ~Intense(last.arg.context)
     /\ ~Requesting(last.arg.context)
     /\ Distrusting(last.arg.context)) =>
        /\ Abs(Cardinality(DrawsGiving(last.arg.context, ResponseType.REJECTION)) - 700) <= 1
        /\ Abs(Cardinality(DrawsGiving(last.arg.context, ResponseType.DIALOGUE)) - 300) <= 1


\* The responses _generateNPCResponse can return for the contexts of this
\* specification, the agent being complete (it has a personality).
NPCResponses ==
    {generateNPCResponse(Merge(DEFAULT_AGENT_TEMPLATE, agent),
                         [agent |-> agent, action |-> action,
                          relationship |-> contextRelationship(relationship)], random) :
        agent \in ContextAgents, action \in ContextActions,
        relationship \in ContextRelationships, random \in Randoms}

\* C34: each of the five response types is the type of the response of an
\* NPC to some agent state, relationship and action.
C34_EveryTypeReachable ==
    last.op = "determineResponseType" =>
        \A type \in {ResponseType.DIALOGUE, ResponseType.PHYSICAL, ResponseType.EMOTION,
                     ResponseType.DECISION, ResponseType.REJECTION} :
            \E response \in NPCResponses : response.type = type


-----------------------------------------------------------------------------
(* agent_policy.js: _calculateEmotionIntensity, in hundredths.             *)

\* _calculateEmotionIntensity times 100: the base intensity, 50 when it is 0
\* or not there, times 1 + (neuroticism - 50) / 100, neuroticism being 50
\* when it is 0 or not there, within 0 and 100.
emotionIntensityHundredths(agent) ==
    Max(0, Min(100 * 100,
               (IF Field(agent, "emotionIntensity", 0) = 0 THEN 50 ELSE agent.emotionIntensity)
               * (100 + (IF Field(agent.personality, "neuroticism", 0) = 0 THEN 50
                         ELSE agent.personality.neuroticism) - 50)))

\* Base intensities and neuroticisms, from 0 to 100.
Tens == {10 * k : k \in 0..10}

CalculateEmotionIntensity ==
    \E base \in Tens, neuroticism \in Tens :
        /\ nOps = 0
        /\ nOps' = 1
        /\ last' = [op |-> "calculateEmotionIntensity", a |-> "", b |-> "",
                    arg |-> [emotionIntensity |-> base, neuroticism |-> neuroticism],
                    ret |-> [hundredths |-> emotionIntensityHundredths(
                                 [emotionIntensity |-> base,
                                  personality |-> [neuroticism |-> neuroticism]])]]
        /\ UNCHANGED <<trustVars, now, histVars, memVars, worldVars, llmVars>>

NextIntensity == CalculateEmotionIntensity

SpecIntensity == Init /\ [][NextIntensity]_vars

\* The formula of the claim, times 100: base * (1 + (neuroticism - 50) / 100)
\* within 0 and 100.
FormulaHundredths(base, neuroticism) ==
    Max(0, Min(100 * 100, base * (100 + neuroticism - 50)))

\* C35: the emotion intensity computed for a base intensity and a
\* neuroticism in 0..100 is the formula's value; it is within 0 and 100, it
\* is not above that of a higher neuroticism, and it is 0 for the base 0.
C35_IntensityFormula ==
    last.op = "calculateEmotionIntensity" =>
        /\ last.ret.hundredths =
               FormulaHundredths(last.arg.emotionIntensity, last.arg.neuroticism)
        /\ last.ret.hundredths \in 0..(100 * 100)
        /\ \A higher \in Tens :
               higher >= last.arg.neuroticism =>
                   last.ret.hundredths <=
                       emotionIntensityHundredths(
                           [emotionIntensity |-> last.arg.emotionIntensity,
                            personality |-> [neuroticism |-> higher]])
        /\ last.arg.emotionIntensity = 0 => last.ret.hundredths = 0

-----------------------------------------------------------------------------
(* history.js: the reads of the History Log.                               *)

\* Array.prototype.slice(start): a negative start counts from the end, and
\* -0 is 0.
sliceFrom(seq, start) ==
    LET k == IF start < 0 THEN Max(Len(seq) + start, 0) ELSE Min(start, Len(seq))
    IN  SubSeq(seq, k + 1, Len(seq))

\* A mutant of getRecentHistory: the whole log.
getRecentHistoryAll(hist, count) == hist

\* getRecentHistory: history.slice(-count).
getRecentHistory(hist, count) == sliceFrom(hist, 0 - count)

\* getHistoryByType: the entries of the type; their slice(-count) when a
\* count is given: [n |-> count] is a count, NoCount the default null.
NoCount == Null

GivenCounts(counts) == {[n |-> count] : count \in counts}

getHistoryByType(hist, type, count) ==
    LET filteredHistory == SelectSeq(hist, LAMBDA entry : entry.type = type)
    IN  IF count # NoCount THEN sliceFrom(filteredHistory, 0 - count.n) ELSE filteredHistory

\* getHistoryByActor: the entries of the actor, an NPC response counting for
\* its npcId.
getHistoryByActor(hist, actorId, count) ==
    LET filteredHistory ==
            SelectSeq(hist, LAMBDA entry :
                \/ Field(entry, "actorId", "") = actorId
                \/ /\ entry.type = HistoryEntryType.NPC_RESPONSE
                   /\ Field(entry, "npcId", "") = actorId)
    IN  IF count # NoCount THEN sliceFrom(filteredHistory, 0 - count.n) ELSE filteredHistory

\* The characters of the ids that appear in a rendered line.
Chars == [player |-> <<"p", "l", "a", "y", "e", "r">>, gm |-> <<"g", "m">>]

NewLine == "\n"

\* The line of an entry in getHistorySummaryForPrompt, a sequence of
\* characters; Null for the types the switch does not render.
summaryLine(entry) ==
    CASE entry.type = HistoryEntryType.ACTION_ENTRY ->
            <<"[", "xing", "wei", "]", " ">> \o Chars[entry.actorId] \o <<":", " ">>
                \o entry.content
      [] entry.type = HistoryEntryType.NPC_RESPONSE ->
            <<"[", "N", "P", "C", "]", " ">> \o Chars[entry.npcId] \o <<":", " ">>
                \o entry.content
      [] entry.type = HistoryEntryType.ENVIRONMENT ->
            <<"[", "huan", "jing", "]", " ">> \o entry.description
      [] entry.type = HistoryEntryType.SYSTEM ->
            <<"[", "xi", "tong", "]", " ">> \o entry.message
      [] OTHER -> Null

\* Array.prototype.join('\n').
RECURSIVE joinLines(_)
joinLines(lines) ==
    IF lines = <<>> THEN <<>>
    ELSE IF Len(lines) = 1 THEN lines[1]
    ELSE lines[1] \o <<NewLine>> \o joinLines(Tail(lines))

\* String.prototype.indexOf: the first position of the character, from 0;
\* -1 when it does not occur.
indexOf(str, ch) ==
    IF \E i \in 1..Len(str) : str[i] = ch
    THEN (CHOOSE i \in 1..Len(str) : str[i] = ch /\ \A j \in 1..(i - 1) : str[j] # ch) - 1
    ELSE 0 - 1

\* String.prototype.substring(start): a negative start is 0.
substring(str, start) == SubSeq(str, Max(start, 0) + 1, Len(str))

\* The lines of the 10 most recent entries.
summaryLines(hist) ==
    LET rendered == [i \in 1..Len(getRecentHistory(hist, 10)) |->
                        summaryLine(getRecentHistory(hist, 10)[i])]
    IN  SelectSeq(rendered, LAMBDA line : line # Null)

realign(cut) == substring(cut, indexOf(cut, NewLine) + 1)

\* getHistorySummaryForPrompt: the joined lines; when longer than maxLength,
\* the last maxLength characters from after their first newline.
getHistorySummaryForPrompt(hist, maxLength) ==
    IF Len(joinLines(summaryLines(hist))) > maxLength
    THEN realign(substring(joinLines(summaryLines(hist)),
                           Len(joinLines(summaryLines(hist))) - maxLength))
    ELSE joinLines(summaryLines(hist))

-----------------------------------------------------------------------------
(* The specification of the reads: entries are added to the empty log and  *)
(* the log is read between the additions.                                  *)

ReadCall(op, arg, ret) ==
    /\ last' = [NoCall EXCEPT !.op = op, !.arg = arg, !.ret = ret]
    /\ UNCHANGED <<trustVars, now, nOps, histVars, memVars, worldVars, llmVars>>

ReadCounts == 0..4

SummaryLengths == 0..16

\* The counts given to getHistoryByType and getHistoryByActor.
FilterCounts == GivenCounts({0, 1}) \cup {NoCount}

GetRecentHistory ==
    \E count \in ReadCounts :
        ReadCall("getRecentHistory", [count |-> count],
                 [entries |-> getRecentHistory(history, count)])

GetHistoryByType ==
    \E type \in {HistoryEntryType.ACTION_ENTRY, HistoryEntryType.SYSTEM},
       count \in FilterCounts :
        ReadCall("getHistoryByType", [type |-> type, count |-> count],
                 [entries |-> getHistoryByType(history, type, count)])

GetHistoryByActor ==
    \E actorId \in {"player", "gm"}, count \in FilterCounts :
        ReadCall("getHistoryByActor", [actorId |-> actorId, count |-> count],
                 [entries |-> getHistoryByActor(history, actorId, count)])

GetHistorySummaryForPrompt ==
    \E maxLength \in SummaryLengths :
        ReadCall("getHistorySummaryForPrompt", [maxLength |-> maxLength],
                 [summary |-> getHistorySummaryForPrompt(history, maxLength)])

\* The additions of the read specification stop at a full log.
AddReadEntry ==
    /\ nOps < maxHistoryLength
    /\ (AddActionEntry \/ AddSystemEntry \/ AddNPCResponseEntry)

NextHistoryReads ==
    \/ AddReadEntry
    \/ GetRecentHistory
    \/ GetHistoryByType
    \/ GetHistoryByActor
    \/ GetHistorySummaryForPrompt

SpecHistoryReads == Init /\ [][NextHistoryReads]_vars

\* C36: the summary is the joined lines of the most recent entries and, when
\* these are longer than maxLength, a suffix of them that is at most
\* maxLength long and is made of complete lines only: the join of the last k
\* lines for some k.
C36_SummaryOfCompleteLines ==
    last.op = "getHistorySummaryForPrompt" =>
        IF Len(joinLines(summaryLines(history))) > last.arg.maxLength
        THEN /\ Len(last.ret.summary) <= last.arg.maxLength
             /\ \E k \in 0..Len(summaryLines(history)) :
                    last.ret.summary = joinLines(sliceFrom(summaryLines(history),
                                                          Len(summaryLines(history)) - k))
        ELSE last.ret.summary = joinLines(summaryLines(history))

-----------------------------------------------------------------------------
(* trust_map.js: initialize().                                             *)

\* The (agent1, agent2) visits of the two nested forEach over the agents:
\* positions in registry order, equal positions left out.
RECURSIVE visitsFrom(_, _, _)
visitsFrom(n, i, j) ==
    IF i > n THEN <<>>
    ELSE IF j > n THEN visitsFrom(n, i + 1, 1)
    ELSE IF i = j THEN visitsFrom(n, i, j + 1)
    ELSE <<(<<i, j>>)>> \o visitsFrom(n, i, j + 1)

\* agent1.relationships && agent1.relationships[agent2.id]
existingRelationship(agent1, agent2) ==
    Field(Field(agent1, "relationships", EmptyObj), agent2.id, Null)

\* One visit: the relationship the first agent's record carries, or the
\* defaults stamped with the time.
visitPair(S, agent1, agent2, t) ==
    IF existingRelationship(agent1, agent2) # Null
    THEN setRelationship(S, agent1.id, agent2.id, existingRelationship(agent1, agent2), t).st
    ELSE setRelationship(S, agent1.id, agent2.id,
                         Merge(DEFAULT_RELATIONSHIP, [createdAt |-> t, updatedAt |-> t]), t).st

\* The visits in order; the agents are the objects getAllAgents() returned
\* before the first visit, which updateAgent replaces in the registry and
\* leaves as they were in the array.
RECURSIVE initializeVisits(_, _, _, _)
initializeVisits(S, snapshot, visits, t) ==
    IF visits = <<>> THEN S
    ELSE initializeVisits(
            visitPair(S, snapshot[Head(visits)[1]], snapshot[Head(visits)[2]], t),
            snapshot, Tail(visits), t)

\* TrustMap.initialize
initializeTrustMap(S, t) ==
    initializeVisits(S, S.ag, visitsFrom(Len(S.ag), 1, 1), t)

-----------------------------------------------------------------------------
(* The specification of the start-up: agents are registered, some with a   *)
(* relationship predefined on their record, and the Trust Map is           *)
(* initialized.                                                            *)

Friendship ==
    [type |-> RelationshipType.FRIEND,
     factors |-> [trust |-> 90, intimacy |-> 60, respect |-> 80,
                  loyalty |-> 70, dependency |-> 10]]

PredefinedAgents ==
    {[id |-> "player", type |-> AgentType.PLAYER],
     [id |-> "player", type |-> AgentType.PLAYER, relationships |-> [gm |-> Friendship]],
     [id |-> "gm", type |-> AgentType.GM],
     [id |-> "gm", type |-> AgentType.GM, relationships |-> [player |-> Friendship]],
     [id |-> "gm_x", type |-> AgentType.NPC]}

RegisterPredefinedAgent ==
    \E agent \in PredefinedAgents :
        Call("registerAgent", agent.id, "", Null,
             [st |-> registerAgent(TrustStore, agent, now), ret |-> Null])

InitializeTrustMap ==
    Call("initializeTrustMap", "", "", Null,
         [st |-> initializeTrustMap(TrustStore, now), ret |-> Null])

NextStartup ==
    \/ InitializeRegistry
    \/ RegisterPredefinedAgent
    \/ InitializeTrustMap

SpecStartup == Init /\ [][NextStartup]_vars

\* The type and the factors of a relationship record.
Standing(relationship) == [type |-> relationship.type, factors |-> relationship.factors]

\* C37: TrustMap.initialize() leaves a record for every pair of distinct
\* registered agents: the neutral defaults when neither agent's record
\* carried a relationship to the other, and otherwise a relationship that one
\* of the two records carried.
C37_InitializeKeepsPredefined ==
    [][last'.op = "initializeTrustMap" =>
        \A i, j \in 1..Len(agents) :
            i # j =>
                LET key == getRelationshipKey(agents[i].id, agents[j].id)
                    held == {existingRelationship(agents[i], agents[j]),
                             existingRelationship(agents[j], agents[i])} \ {Null}
                IN  /\ key \in DOMAIN relationships'
                    /\ IF held = {}
                       THEN Standing(relationships'[key]) = Standing(DEFAULT_RELATIONSHIP)
                       ELSE \E r \in held :
                               Standing(relationships'[key])
                                   = Standing(Merge(DEFAULT_RELATIONSHIP, r))]_vars


\* The last Min(n, Len(seq)) elements of a sequence, in order.
LastN(seq, n) == SubSeq(seq, Len(seq) - Min(n, Len(seq)) + 1, Len(seq))

\* C38: getRecentHistory(n) returns the last min(n, length) entries of the
\* log in order, so never more than n; getHistoryByType and getHistoryByActor
\* with a count return no more than count entries.
C38_RecentAtMostCount ==
    /\ last.op = "getRecentHistory" =>
          /\ last.ret.entries = LastN(history, last.arg.count)
          /\ Len(last.ret.entries) <= last.arg.count
    /\ (last.op \in {"getHistoryByType", "getHistoryByActor"} /\ last.arg.count # NoCount) =>
          Len(last.ret.entries) <= last.arg.count.n


-----------------------------------------------------------------------------
(* The adapter under fairness: a timer that is due fires, a provider call  *)
(* in flight ends, and the clock advances.                                 *)

SpecAdapterFair ==
    /\ SpecAdapter
    /\ WF_vars(TimerFires)
    /\ WF_vars(ProviderResponds)
    /\ WF_vars(AdapterTick)

\* The provider calls that settled the promise of request r.
Settlements(r) ==
    {i \in 1..Len(providerCalls) :
        providerCalls[i].req = r /\ providerCalls[i].outcome \in {"resolved", "rejected"}}

\* C39: requests are numbered in the order of their queueRequest calls.  No
\* request is settled twice, and every request that was queued is eventually
\* settled, whatever the state of the queue when it was queued and whether
\* the requests before it succeeded or failed.
C39_EveryRequestSettledOnce ==
    /\ [](\A r \in 1..MaxRequests : Cardinality(Settlements(r)) <= 1)
    /\ \A r \in 1..MaxRequests : (nOps >= r) ~> (Cardinality(Settlements(r)) = 1)

\* C39 witness: three requests were queued, the first one was rejected, the
\* two behind it were settled after it, and the queue has drained.
C39_Witness ==
    /\ nOps = 3
    /\ \A r \in 1..3 : Cardinality(Settlements(r)) = 1
    /\ \E i \in Settlements(1) :
          /\ providerCalls[i].outcome = "rejected"
          /\ \A j \in Settlements(2) \cup Settlements(3) : j > i
    /\ requestQueue = <<>>
    /\ ~isProcessingQueue
    /\ llmPc = <<>>


\* C40: the id addMemory returns is the id of a stored memory: getMemory of
\* it, right after the call, returns the memory that was added.
C40_AddedMemoryStored ==
    [][Called("addMemory") =>
        LET got == getMemory(MemStore(memories', agentMemories', gsMemories', TrustStore),
                             last'.ret.id, now').ret
        IN  /\ last'.ret.id \in StoredIds(memories')
            /\ got # Null
            /\ got.id = last'.ret.id
            /\ got.importance = last'.arg.importance
    ]_vars

=============================================================================
